---- MODULE Spec2Model ----
(***************************************************************************)
(* Model of the clinic simulation engine of src/api2/app.py: the global    *)
(* STATE dictionary, the risk pipeline, the deployment engine, the         *)
(* communications scheduler, the day clock and the intraday cursor.        *)
(*                                                                         *)
(* Risks are kept in thousandths (0.63 is 630): the code rounds every      *)
(* stored risk to 3 decimals.  Products of two risks are in millionths.    *)
(* Wall-clock time (datetime.now) is the variable now, in hours.           *)
(***************************************************************************)
EXTENDS Integers, Sequences, FiniteSets, TLC

VARIABLES todayIndex, appointments, strategies, deployments, logs,
          intraday, same_day_comms_done, now, resp, inflight

vars == <<todayIndex, appointments, strategies, deployments, logs,
          intraday, same_day_comms_done, now, resp, inflight>>

(***************************************************************************)
(* Bounds of the model                                                     *)
(***************************************************************************)
MaxDay == 3
MaxNow == 13
MaxExtras == 1
MaxDeploys == 1
\* the requests the threaded server handles at the same time
MaxInFlight == 2

(***************************************************************************)
(* Program constants                                                       *)
(***************************************************************************)
SMS_FACTOR == 900
CALL_FACTOR == 800
CONFIRM_12H_FACTOR == 600
SILENCE_LIFT == 50
PRED_THRESHOLD == 500
SILENCE_MIN == 400
CLAMP_LO == 10
CLAMP_HI == 990
TWELVE_HOURS == 12
SEED_DAY == 2
\* the ordinal of the calendar date of day 0 (the date of the first request)
startDateISO == 20

None == "none"

\* the ids appointments can have, in the order the seeding inserts them
ApptOrder == <<"a1", "a2", "a3", "a4", "a5", "a6", "a7", "a8", "a9", "a10">>
InOrder(appts, id) == id \in DOMAIN appts
\* the dict of appointments iterates in insertion order
Order(appts) == SelectSeq(ApptOrder, LAMBDA id : InOrder(appts, id))
\* an id no appointment has
UnknownAppt == "zz"

\* hour of the slot: 9 + (i % 9), so the tenth seeded slot is at 9h again
SeedHour(i) == 9 + (i % 9)
SeedIndex == [a1 |-> 1, a2 |-> 9, a3 |-> 2, a4 |-> 3, a5 |-> 4, a6 |-> 5, a7 |-> 6, a8 |-> 7, a9 |-> 8, a10 |-> 0]

\* the age and static risk the seeding drew for each appointment
Profile == [ a1 |-> [age |-> 25, static_risk |-> 700],
             a2 |-> [age |-> 50, static_risk |-> 450],
             a3 |-> [age |-> 40, static_risk |-> 350],
             a4 |-> [age |-> 60, static_risk |-> 990],
             a5 |-> [age |-> 25, static_risk |-> 10],
             a6 |-> [age |-> 45, static_risk |-> 150],
             a7 |-> [age |-> 70, static_risk |-> 850],
             a8 |-> [age |-> 55, static_risk |-> 667],
             a9 |-> [age |-> 35, static_risk |-> 444],
             a10 |-> [age |-> 65, static_risk |-> 1000] ]

(***************************************************************************)
(* Utilities                                                               *)
(***************************************************************************)
\* x in millionths
clamp01_floor_only(x) ==
    LET lo == CLAMP_LO * 1000
    IN  IF lo > x THEN lo ELSE x
clamp01_none(x) == x
clamp01(x) ==
    LET lo == CLAMP_LO * 1000
        hi == CLAMP_HI * 1000
        m  == IF hi < x THEN hi ELSE x
    IN  IF lo > m THEN lo ELSE m

\* The products live * 0.90 whose exact value ends in ...5 (a tie in the third
\* decimal) and whose binary double lies below the tie: round(.., 3) rounds
\* these down, every other tie up.  Factors 0.80 and 0.60 and the sum
\* live + 0.05 give no ties.
TiesBelow ==
    { 900 * k : k \in { 15, 205, 235, 345, 415, 475, 485, 565, 575, 585, 595,
                        605, 615, 625, 695, 705, 715, 725, 735, 745, 755, 815,
                        825, 835, 845, 855, 865, 875, 885, 895, 945, 955, 965,
                        975, 985, 995 } }

\* round(x, 3): millionths to thousandths
round3(x) ==
    LET q == x \div 1000
        r == x % 1000
    IN  IF r > 500 THEN q + 1
        ELSE IF r < 500 THEN q
        ELSE IF x \in TiesBelow THEN q ELSE q + 1

predicted_outcome_from_risk(p) == IF p >= PRED_THRESHOLD THEN "dna" ELSE "attend"

\* appt["strategy_variant"] or "A"
VariantKey(v) == IF v = None THEN "A" ELSE v

\* the entry log_event appends; ts is the wall clock, id the entry's position
log_event_front(st, send_day_index, appointment_id, type, variant, message, reply, outcome) ==
    [st EXCEPT !.logs = <<[ id |-> Len(st.logs) + 1, ts |-> now,
                            send_day_index |-> send_day_index,
                            appointment_day_index |-> send_day_index,
                            appointment_id |-> appointment_id, type |-> type,
                            variant |-> variant, message |-> message,
                            reply |-> reply, outcome |-> outcome ]>> \o @]

log_event(st, send_day_index, appointment_id, type, variant, message, reply, outcome) ==
    LET appointment_day_index ==
            IF appointment_id \in DOMAIN st.appointments
            THEN st.appointments[appointment_id].dayIndex
            ELSE send_day_index
        entry == [ id |-> Len(st.logs) + 1,
                   ts |-> now,
                   send_day_index |-> send_day_index,
                   appointment_day_index |-> appointment_day_index,
                   appointment_id |-> appointment_id,
                   type |-> type,
                   variant |-> variant,
                   message |-> message,
                   reply |-> reply,
                   outcome |-> outcome ]
    IN  [st EXCEPT !.logs = Append(@, entry)]

\* messages of the log: the text and, for a scheduled comm, its offset
Msg(text, offset) == [text |-> text, offset |-> offset]

(***************************************************************************)
(* Seeding                                                                 *)
(***************************************************************************)
Segment(age_min, age_max, risk_min, risk_max) ==
    [age_min |-> age_min, age_max |-> age_max, risk_min |-> risk_min, risk_max |-> risk_max]
\* segment None
NoSegment == <<>>

Variant(type, days_of_action) == [type |-> type, days_of_action |-> days_of_action]

seed_strategies ==
    [ s1 |-> [ id |-> "s1", name |-> "High Risk Outreach", is_default |-> FALSE,
               segment |-> Segment(18, 80, 500, 1000),
               ab |-> [ split |-> 500, A |-> Variant("sms", <<-1>>), B |-> Variant("call", <<-1>>) ] ],
      s2 |-> [ id |-> "s2", name |-> "Young Cohort SMS", is_default |-> FALSE,
               segment |-> Segment(18, 30, 300, 1000),
               ab |-> [ split |-> 500, A |-> Variant("sms", <<-1>>), B |-> Variant("sms", <<-1>>) ] ],
      sd |-> [ id |-> "sd", name |-> "Default Safety Net", is_default |-> TRUE,
               segment |-> NoSegment,
               ab |-> [ split |-> 1000, A |-> Variant("sms", <<-1>>), B |-> Variant("sms", <<-1>>) ] ] ]

seed_appointment(id, d, profile) ==
    [ id |-> id,
      age |-> profile.age,
      hour |-> SeedHour(SeedIndex[id]),
      dayIndex |-> d,
      static_risk |-> profile.static_risk,
      live_adjusted_risk |-> profile.static_risk,
      predicted_outcome_static |-> predicted_outcome_from_risk(profile.static_risk),
      predicted_outcome_live |-> predicted_outcome_from_risk(profile.static_risk),
      strategy_variant |-> None,
      strategy_applied_ids |-> <<>>,
      comms_history |-> <<>>,
      outcome |-> "unknown",
      live_adjustment_applied |-> FALSE ]

seed_appointments(ids) == [ id \in ids |-> seed_appointment(id, SEED_DAY, Profile[id]) ]

EmptyIntraday == [dayIndex |-> -1, order |-> <<>>, next_idx |-> 0, last_processed_id |-> None]

\* the mutable STATE as one record, threaded through the helpers
State ==
    [ todayIndex |-> todayIndex, appointments |-> appointments, strategies |-> strategies,
      logs |-> logs, intraday |-> intraday, same_day_comms_done |-> same_day_comms_done ]

Install(st) ==
    /\ todayIndex' = st.todayIndex
    /\ appointments' = st.appointments
    /\ strategies' = st.strategies
    /\ logs' = st.logs
    /\ intraday' = st.intraday
    /\ same_day_comms_done' = st.same_day_comms_done

(***************************************************************************)
(* Intraday helpers                                                        *)
(***************************************************************************)
\* the ids of ApptOrder on day d, in insertion order
RECURSIVE ids_on_day(_, _, _)
ids_on_day(appts, d, i) ==
    IF i > Len(Order(appts)) THEN <<>>
    ELSE IF appts[Order(appts)[i]].dayIndex = d
         THEN <<Order(appts)[i]>> \o ids_on_day(appts, d, i + 1)
         ELSE ids_on_day(appts, d, i + 1)

\* list.sort(key=datetime) is stable: x goes after every element whose slot is
\* not later than its own
RECURSIVE insert_by_time(_, _, _)
insert_by_time(appts, sorted, x) ==
    IF sorted = <<>> THEN <<x>>
    ELSE IF appts[Head(sorted)].hour <= appts[x].hour
         THEN <<Head(sorted)>> \o insert_by_time(appts, Tail(sorted), x)
         ELSE <<x>> \o sorted

RECURSIVE sort_by_time(_, _)
sort_by_time(appts, ids) ==
    IF ids = <<>> THEN <<>>
    ELSE insert_by_time(appts, sort_by_time(appts, SubSeq(ids, 1, Len(ids) - 1)), ids[Len(ids)])

init_intraday_for_today_unsorted(st, force) ==
    IF ~force /\ st.intraday.dayIndex = st.todayIndex /\ st.intraday.order # <<>>
    THEN st
    ELSE [st EXCEPT !.intraday =
             [ dayIndex |-> st.todayIndex,
               order |-> ids_on_day(st.appointments, st.todayIndex, 1),
               next_idx |-> 0,
               last_processed_id |-> None ]]

init_intraday_for_today(st, force) ==
    LET t == st.todayIndex
        intr == st.intraday
    IN  IF ~force /\ intr.dayIndex = t /\ intr.order # <<>>
        THEN st
        ELSE [st EXCEPT !.intraday =
                 [ dayIndex |-> t,
                   order |-> sort_by_time(st.appointments, ids_on_day(st.appointments, t, 1)),
                   next_idx |-> 0,
                   last_processed_id |-> None ]]

(***************************************************************************)
(* Communications and risk pipeline                                        *)
(***************************************************************************)
Factor_call(kind) == CALL_FACTOR
Factor(kind) == IF kind = "sms" THEN SMS_FACTOR ELSE CALL_FACTOR

comms_entry(st, id, kind, note) ==
    [ ts |-> now, type |-> kind,
      variant |-> st.appointments[id].strategy_variant, note |-> note ]

apply_comms_effect_stale(st, id, kind) ==
    [st EXCEPT !.appointments[id].live_adjusted_risk =
                   round3(clamp01(st.appointments[id].live_adjusted_risk * Factor(kind)))]

apply_comms_effect(st, id, kind) ==
    LET live == round3(clamp01(st.appointments[id].live_adjusted_risk * Factor(kind)))
    IN  [st EXCEPT !.appointments[id].live_adjusted_risk = live,
                   !.appointments[id].predicted_outcome_live = predicted_outcome_from_risk(live)]

\* one offset-0 comm of run_same_day_comms_once: no reply is simulated
fire_same_day(st, id, kind) ==
    LET s1 == [st EXCEPT !.appointments[id].comms_history = Append(@, comms_entry(st, id, kind, "scheduled"))]
        s2 == apply_comms_effect(s1, id, kind)
    IN  log_event(s2, st.todayIndex, id, kind, st.appointments[id].strategy_variant,
                  Msg("sent", 0), None, None)

Contains(seq, x) == \E i \in 1..Len(seq) : seq[i] = x

RECURSIVE same_day_strategies(_, _, _)
same_day_strategies(st, id, j) ==
    LET appt == st.appointments[id]
        sids == appt.strategy_applied_ids
    IN  IF j > Len(sids) THEN st
        ELSE LET variant == st.strategies[sids[j]].ab[VariantKey(appt.strategy_variant)]
             IN  IF Contains(variant.days_of_action, 0)
                 THEN same_day_strategies(fire_same_day(st, id, variant.type), id, j + 1)
                 ELSE same_day_strategies(st, id, j + 1)

RECURSIVE same_day_appointments(_, _)
same_day_appointments(st, i) ==
    IF i > Len(Order(st.appointments)) THEN st
    ELSE IF st.appointments[Order(st.appointments)[i]].dayIndex # st.todayIndex
         THEN same_day_appointments(st, i + 1)
         ELSE same_day_appointments(same_day_strategies(st, Order(st.appointments)[i], 1), i + 1)

run_same_day_comms_once(st) ==
    IF st.todayIndex \in st.same_day_comms_done
    THEN st
    ELSE [same_day_appointments(st, 1) EXCEPT !.same_day_comms_done = @ \cup {st.todayIndex}]

\* the reply drawn after a comm: yes, no, or none
simulate_reply(st, t, id) ==
    LET v == st.appointments[id].strategy_variant
    IN  { st,
          log_event(st, t, id, "reply", v, Msg("reply received", 0), "yes", None),
          log_event(st, t, id, "reply", v, Msg("reply received", 0), "no", None) }

fire_scheduled(st, id, kind, t, offset) ==
    LET s1 == [st EXCEPT !.appointments[id].comms_history = Append(@, comms_entry(st, id, kind, "scheduled"))]
        s2 == apply_comms_effect(s1, id, kind)
        s3 == log_event(s2, t, id, kind, st.appointments[id].strategy_variant,
                        Msg("sent", offset), None, None)
    IN  simulate_reply(s3, t, id)

offset_due_day_early(offset, t, appt) == offset = t + 1 - appt.dayIndex
offset_due(offset, t, appt) == offset = t - appt.dayIndex

RECURSIVE sweep_offsets(_, _, _, _, _)
sweep_offsets(st, id, sid, t, i) ==
    LET appt == st.appointments[id]
        variant == st.strategies[sid].ab[VariantKey(appt.strategy_variant)]
    IN  IF i > Len(variant.days_of_action) THEN {st}
        ELSE IF offset_due(variant.days_of_action[i], t, appt)
             THEN UNION { sweep_offsets(s, id, sid, t, i + 1) :
                            s \in fire_scheduled(st, id, variant.type, t, variant.days_of_action[i]) }
             ELSE sweep_offsets(st, id, sid, t, i + 1)

RECURSIVE sweep_strategies(_, _, _, _)
sweep_strategies(st, id, t, j) ==
    LET sids == st.appointments[id].strategy_applied_ids
    IN  IF j > Len(sids) THEN {st}
        ELSE UNION { sweep_strategies(s, id, t, j + 1) : s \in sweep_offsets(st, id, sids[j], t, 1) }

RECURSIVE sweep_appointments(_, _, _)
sweep_appointments(st, t, i) ==
    IF i > Len(Order(st.appointments)) THEN {st}
    ELSE UNION { sweep_appointments(s, t, i + 1) : s \in sweep_strategies(st, Order(st.appointments)[i], t, 1) }

\* the set of states the sweep can leave, one per draw of the replies
run_scheduled_comms_for_day(st, t) == sweep_appointments(st, t, 1)

IsComm(l) == l.type \in {"sms", "call"}

RECURSIVE fill_no_reply_always(_, _, _)
fill_no_reply_always(st, t, todo) ==
    IF todo = {} THEN {st}
    ELSE UNION { fill_no_reply_always(
                     log_event(st, t, id, "reply", st.appointments[id].strategy_variant,
                               Msg("no reply by end of day", 0), "no_reply_eod", None),
                     t, todo \ {id}) : id \in todo }

\* a Python set of ids iterates in an order the build does not fix
RECURSIVE fill_no_reply(_, _, _)
fill_no_reply(st, t, todo) ==
    IF todo = {} THEN {st}
    ELSE UNION { LET any_reply == \E k \in 1..Len(st.logs) :
                                     /\ st.logs[k].send_day_index = t
                                     /\ st.logs[k].appointment_id = id
                                     /\ st.logs[k].type = "reply"
                     s == IF any_reply THEN st
                          ELSE log_event(st, t, id, "reply", st.appointments[id].strategy_variant,
                                         Msg("no reply by end of day", 0), "no_reply_eod", None)
                 IN  fill_no_reply(s, t, todo \ {id}) : id \in todo }

\* a fill that looks only for a patient's own answer, not for an earlier fill
RECURSIVE fill_no_reply_answers_only(_, _, _)
fill_no_reply_answers_only(st, t, todo) ==
    IF todo = {} THEN {st}
    ELSE UNION { LET any_reply == \E k \in 1..Len(st.logs) :
                                     /\ st.logs[k].send_day_index = t
                                     /\ st.logs[k].appointment_id = id
                                     /\ st.logs[k].type = "reply"
                                     /\ st.logs[k].reply # "no_reply_eod"
                     s == IF any_reply THEN st
                          ELSE log_event(st, t, id, "reply", st.appointments[id].strategy_variant,
                                         Msg("no reply by end of day", 0), "no_reply_eod", None)
                 IN  fill_no_reply_answers_only(s, t, todo \ {id}) : id \in todo }

end_of_day_fill_answers_only(st, t) ==
    LET sent_ids == { st.logs[k].appointment_id :
                        k \in { n \in 1..Len(st.logs) :
                                  st.logs[n].send_day_index = t /\ IsComm(st.logs[n]) } }
    IN  fill_no_reply_answers_only(st, t, sent_ids)

end_of_day_fill_no_reply_eod(st, t) ==
    LET sent_ids == { st.logs[k].appointment_id :
                        k \in { n \in 1..Len(st.logs) :
                                  st.logs[n].send_day_index = t /\ IsComm(st.logs[n]) } }
    IN  fill_no_reply(st, t, sent_ids)

LogsOf(st, id) == { k \in 1..Len(st.logs) : st.logs[k].appointment_id = id }

confirmed(st, id) ==
    \E k \in LogsOf(st, id) :
        /\ st.logs[k].type = "reply"
        /\ st.logs[k].reply = "yes"
        /\ st.logs[k].ts >= now - TWELVE_HOURS

any_reply_recent_counting_fill(st, id) ==
    \E k \in LogsOf(st, id) : st.logs[k].type = "reply"

any_reply_recent(st, id) ==
    \E k \in LogsOf(st, id) :
        st.logs[k].type = "reply" /\ st.logs[k].reply \in {"yes", "no"}

adjusted_live_sms_factor(st, id) ==
    LET live == st.appointments[id].live_adjusted_risk
    IN  IF confirmed(st, id)
        THEN round3(clamp01(live * SMS_FACTOR))
        ELSE IF ~any_reply_recent(st, id) /\ live > SILENCE_MIN
             THEN round3(clamp01((live + SILENCE_LIFT) * 1000))
             ELSE live
adjusted_live(st, id) ==
    LET live == st.appointments[id].live_adjusted_risk
    IN  IF confirmed(st, id)
        THEN round3(clamp01(live * CONFIRM_12H_FACTOR))
        ELSE IF ~any_reply_recent(st, id) /\ live > SILENCE_MIN
             THEN round3(clamp01((live + SILENCE_LIFT) * 1000))
             ELSE live

skip_adjustment_unflagged(appt, t) == appt.dayIndex # t
skip_adjustment(appt, t) == appt.dayIndex # t \/ appt.live_adjustment_applied

RECURSIVE adjust_appointments(_, _)
adjust_appointments(st, i) ==
    IF i > Len(Order(st.appointments)) THEN st
    ELSE LET id == Order(st.appointments)[i]
             live == adjusted_live(st, id)
         IN  IF skip_adjustment(st.appointments[id], st.todayIndex)
             THEN adjust_appointments(st, i + 1)
             ELSE adjust_appointments(
                      [st EXCEPT !.appointments[id].live_adjusted_risk = live,
                                 !.appointments[id].predicted_outcome_live = predicted_outcome_from_risk(live),
                                 !.appointments[id].live_adjustment_applied = TRUE],
                      i + 1)

compute_live_adjustments_rebuilding(st) ==
    init_intraday_for_today(adjust_appointments(run_same_day_comms_once(st), 1), TRUE)

compute_live_adjustments_for_today(st) ==
    init_intraday_for_today(adjust_appointments(run_same_day_comms_once(st), 1), FALSE)

\* outcome drawn against the live risk: a risk within [0.01, 0.99] leaves both open
draw_outcome(p) ==
    (IF p > 0 THEN {"no_show"} ELSE {}) \cup (IF p < 1000 THEN {"attended"} ELSE {})

due_for_settlement_any_day(appt, day) == appt.outcome = "unknown"
due_for_settlement_again(appt, day) == appt.dayIndex = day
due_for_settlement(appt, day) == appt.dayIndex = day /\ appt.outcome = "unknown"

RECURSIVE settle_appointments(_, _, _)
settle_appointments(st, day, i) ==
    IF i > Len(Order(st.appointments)) THEN {st}
    ELSE LET id == Order(st.appointments)[i]
             appt == st.appointments[id]
         IN  IF due_for_settlement(appt, day)
             THEN UNION { settle_appointments([st EXCEPT !.appointments[id].outcome = o], day, i + 1) :
                            o \in draw_outcome(appt.live_adjusted_risk) }
             ELSE settle_appointments(st, day, i + 1)

settle_outcomes_for_day_skipping(st, day_just_ended) == {st}
settle_outcomes_for_day(st, day_just_ended) == settle_appointments(st, day_just_ended, 1)

(***************************************************************************)
(* Strategy and deployment logic                                           *)
(***************************************************************************)
Has(d, k) == k \in DOMAIN d

in_segment(appt, strat) ==
    LET seg == strat.segment
        age == appt.age
        r == appt.static_risk
        ok_age == /\ (~Has(seg, "age_min") \/ age >= seg.age_min)
                  /\ (~Has(seg, "age_max") \/ age <= seg.age_max)
        ok_risk == /\ (~Has(seg, "risk_min") \/ r >= seg.risk_min)
                   /\ (~Has(seg, "risk_max") \/ r <= seg.risk_max)
    IN  IF DOMAIN seg = {} THEN TRUE ELSE ok_age /\ ok_risk

\* "A" if RAND.random() < split else "B", random() in [0, 1)
pick_variant(split) ==
    (IF split > 0 THEN {"A"} ELSE {}) \cup (IF split < 1000 THEN {"B"} ELSE {})

\* the assignment both loops of deploy make to one appointment
assign_appending(st, id, strat, v) ==
    [st EXCEPT !.appointments[id].strategy_variant = v,
               !.appointments[id].strategy_applied_ids = Append(@, strat.id)]

assign(st, id, strat, v) ==
    [st EXCEPT !.appointments[id].strategy_variant = v,
               !.appointments[id].strategy_applied_ids =
                   IF Contains(@, strat.id) THEN @ ELSE Append(@, strat.id)]

\* the strategies of the request that exist, in the order given
RECURSIVE chosen_of(_, _)
chosen_of(strats, ids) ==
    IF ids = <<>> THEN <<>>
    ELSE IF Head(ids) \in DOMAIN strats
         THEN <<strats[Head(ids)]>> \o chosen_of(strats, Tail(ids))
         ELSE chosen_of(strats, Tail(ids))

\* the state and the set of matched ids, threaded through the loops
RECURSIVE deploy_appts_first_match(_, _, _, _)
deploy_appts_first_match(sm, strat, target, i) ==
    IF i > Len(Order(sm.st.appointments)) THEN {sm}
    ELSE LET id == Order(sm.st.appointments)[i]
             a == sm.st.appointments[id]
         IN  IF a.dayIndex = target /\ in_segment(a, strat) /\ id \notin sm.matched
             THEN UNION { deploy_appts_first_match([st |-> assign(sm.st, id, strat, v),
                                                    matched |-> sm.matched \cup {id}],
                                                   strat, target, i + 1) :
                            v \in pick_variant(strat.ab.split) }
             ELSE deploy_appts_first_match(sm, strat, target, i + 1)
RECURSIVE deploy_appts_any_day(_, _, _, _)
deploy_appts_any_day(sm, strat, target, i) ==
    IF i > Len(Order(sm.st.appointments)) THEN {sm}
    ELSE LET id == Order(sm.st.appointments)[i]
             a == sm.st.appointments[id]
         IN  IF in_segment(a, strat)
             THEN UNION { deploy_appts_any_day([st |-> assign(sm.st, id, strat, v),
                                                matched |-> sm.matched \cup {id}],
                                               strat, target, i + 1) :
                            v \in pick_variant(strat.ab.split) }
             ELSE deploy_appts_any_day(sm, strat, target, i + 1)
RECURSIVE deploy_appts(_, _, _, _)
deploy_appts(sm, strat, target, i) ==
    IF i > Len(Order(sm.st.appointments)) THEN {sm}
    ELSE LET id == Order(sm.st.appointments)[i]
             a == sm.st.appointments[id]
         IN  IF a.dayIndex = target /\ in_segment(a, strat)
             THEN UNION { deploy_appts([st |-> assign(sm.st, id, strat, v),
                                        matched |-> sm.matched \cup {id}],
                                       strat, target, i + 1) :
                            v \in pick_variant(strat.ab.split) }
             ELSE deploy_appts(sm, strat, target, i + 1)

RECURSIVE deploy_non_default(_, _, _, _)
deploy_non_default(sm, chosen, target, j) ==
    IF j > Len(chosen) THEN {sm}
    ELSE IF chosen[j].is_default
         THEN deploy_non_default(sm, chosen, target, j + 1)
         ELSE UNION { deploy_non_default(s, chosen, target, j + 1) :
                        s \in deploy_appts(sm, chosen[j], target, 1) }

RECURSIVE deploy_default_all(_, _, _, _)
deploy_default_all(sm, default, target, i) ==
    IF i > Len(Order(sm.st.appointments)) THEN {sm}
    ELSE LET id == Order(sm.st.appointments)[i]
             a == sm.st.appointments[id]
         IN  IF a.dayIndex = target
             THEN UNION { deploy_default_all([sm EXCEPT !.st = assign(sm.st, id, default, v)],
                                             default, target, i + 1) :
                            v \in pick_variant(default.ab.split) }
             ELSE deploy_default_all(sm, default, target, i + 1)
RECURSIVE deploy_default(_, _, _, _)
deploy_default(sm, default, target, i) ==
    IF i > Len(Order(sm.st.appointments)) THEN {sm}
    ELSE LET id == Order(sm.st.appointments)[i]
             a == sm.st.appointments[id]
         IN  IF a.dayIndex = target /\ id \notin sm.matched
             THEN UNION { deploy_default([sm EXCEPT !.st = assign(sm.st, id, default, v)],
                                         default, target, i + 1) :
                            v \in pick_variant(default.ab.split) }
             ELSE deploy_default(sm, default, target, i + 1)

\* next((s for s in chosen if s["is_default"]), None): the index, 0 for None
first_default(chosen) ==
    LET D == { j \in 1..Len(chosen) : chosen[j].is_default }
    IN  IF D = {} THEN 0 ELSE CHOOSE j \in D : \A k \in D : j <= k

\* the states deploy can leave, one per draw of the variants
deploy(st, target, strategy_ids) ==
    LET chosen == chosen_of(st.strategies, strategy_ids)
        after == deploy_non_default([st |-> st, matched |-> {}], chosen, target, 1)
        d == first_default(chosen)
    IN  IF d = 0 THEN { sm.st : sm \in after }
        ELSE { sm.st : sm \in UNION { deploy_default(x, chosen[d], target, 1) : x \in after } }

dep_rec(st, target, strategy_ids) ==
    LET chosen == chosen_of(st.strategies, strategy_ids)
    IN  [ target_day |-> target, strategy_ids |-> [j \in 1..Len(chosen) |-> chosen[j].id] ]

Abs(x) == IF x < 0 THEN -x ELSE x
SeqMax(seq) == IF seq = <<>> THEN 0 ELSE CHOOSE m \in {seq[i] : i \in 1..Len(seq)} :
                                           \A i \in 1..Len(seq) : seq[i] <= m

\* max(|x|) over both variants' offsets, 0 when there are none
strategy_window(s) ==
    LET offs == s.ab.A.days_of_action \o s.ab.B.days_of_action
    IN  SeqMax([i \in 1..Len(offs) |-> Abs(offs[i])])

max_window(strats, strat_ids) ==
    SeqMax([i \in 1..Len(strat_ids) |->
               IF strat_ids[i] \in DOMAIN strats THEN strategy_window(strats[strat_ids[i]]) ELSE 0])

window_exceeded_either_side(st, target_day, strat_ids) ==
    max_window(st.strategies, strat_ids) > Abs(target_day - st.todayIndex)
window_exceeded_strict(st, target_day, strat_ids) ==
    max_window(st.strategies, strat_ids) >= target_day - st.todayIndex
window_exceeded(st, target_day, strat_ids) ==
    max_window(st.strategies, strat_ids) > target_day - st.todayIndex

Response(op, status, processed) == [op |-> op, status |-> status, processed |-> processed]

iso_date_for_day(day_index) == startDateISO + day_index
day_index_from_date(date_iso) == date_iso - startDateISO

(***************************************************************************)
(* Summaries                                                               *)
(***************************************************************************)
\* a value that may be None: the empty tuple is None, <<x>> holds x
Absent == <<>>
Some(x) == <<x>>

\* the bucket edges, in thousandths
BUCKETS == << <<0, 200>>, <<200, 400>>, <<400, 600>>, <<600, 800>>, <<800, 1000>> >>

\* the count of every bucket: lo <= v < hi
InBucket(v, i) == BUCKETS[i][1] <= v /\ v < BUCKETS[i][2]
_dist_from_values_cumulative(values) ==
    [ i \in 1..Len(BUCKETS) |->
        Cardinality({ j \in 1..Len(values) : values[j] < BUCKETS[i][2] }) ]
_dist_from_values(values) ==
    [ i \in 1..Len(BUCKETS) |->
        Cardinality({ j \in 1..Len(values) : InBucket(values[j], i) }) ]

\* round(total / n, 3) for total in thousandths: the quotient is rounded to the
\* nearest thousandth; on an exact tie the double nearest to the quotient lies
\* on either side of it, depending on the operands
rate3(total, n) ==
    LET q == total \div n
        r == total % n
    IN  IF 2 * r < n THEN {q}
        ELSE IF 2 * r > n THEN {q + 1}
        ELSE {q, q + 1}

RECURSIVE sum_static(_, _)
sum_static(appts, ids) ==
    IF ids = <<>> THEN 0 ELSE appts[Head(ids)].static_risk + sum_static(appts, Tail(ids))

RECURSIVE sum_live(_, _)
sum_live(appts, ids) ==
    IF ids = <<>> THEN 0 ELSE appts[Head(ids)].live_adjusted_risk + sum_live(appts, Tail(ids))

live_values(appts, ids) == [ j \in 1..Len(ids) |-> appts[ids[j]].live_adjusted_risk ]

finished_of(appts, ids) == SelectSeq(ids, LAMBDA id : appts[id].outcome # "unknown")
no_shows_of(appts, ids) == SelectSeq(ids, LAMBDA id : appts[id].outcome = "no_show")
correct_of(appts, ids) ==
    SelectSeq(ids, LAMBDA id :
        \/ appts[id].outcome = "no_show" /\ appts[id].predicted_outcome_live = "dna"
        \/ appts[id].outcome = "attended" /\ appts[id].predicted_outcome_live = "attend")

\* the strategies that touched the appointments and still exist (a set: the
\* code iterates a Python set)
strategies_applied(st, ids) ==
    { [id |-> sid, name |-> st.strategies[sid].name] :
        sid \in { s \in UNION { { st.appointments[ids[j]].strategy_applied_ids[k] :
                                    k \in 1..Len(st.appointments[ids[j]].strategy_applied_ids) } :
                                j \in 1..Len(ids) } : s \in DOMAIN st.strategies } }

\* today's running metrics among the settled appointments
accuracy_today(st, ids) ==
    LET finished == finished_of(st.appointments, ids)
    IN  IF finished = <<>> THEN {Absent}
        ELSE { Some(x) : x \in rate3(1000 * Len(correct_of(st.appointments, finished)), Len(finished)) }

today_pred_vs_obs(st, ids) ==
    LET finished == finished_of(st.appointments, ids)
    IN  IF finished = <<>> THEN {Absent}
        ELSE { Some([ completed |-> Len(finished), pred_no_show_rate |-> p, obs_no_show_rate |-> ob ]) :
                 p \in rate3(sum_live(st.appointments, finished), Len(finished)),
                 ob \in rate3(1000 * Len(no_shows_of(st.appointments, finished)), Len(finished)) }

\* predicted against observed for day_index - 1, once every appointment of that
\* day has an outcome
pred_vs_obs(st, day_index) ==
    LET prev == ids_on_day(st.appointments, day_index - 1, 1)
    IN  IF day_index - 1 >= 0 /\ prev # <<>> /\ finished_of(st.appointments, prev) = prev
        THEN { Some([ dayIndex |-> day_index - 1, pred_no_show_rate |-> p, obs_no_show_rate |-> ob ]) :
                 p \in rate3(sum_live(st.appointments, prev), Len(prev)),
                 ob \in rate3(1000 * Len(no_shows_of(st.appointments, prev)), Len(prev)) }
        ELSE {Absent}

\* the keys of by_strat in the order the loops insert them
RECURSIVE by_strat_keys(_, _, _)
by_strat_keys(appts, ids, seen) ==
    IF ids = <<>> THEN seen
    ELSE LET applied == appts[Head(ids)].strategy_applied_ids
             fresh == SelectSeq(applied, LAMBDA sid : \A k \in 1..Len(seen) : seen[k] # sid)
             \* a repeated id in one list is inserted once
             once == SelectSeq([ k \in 1..Len(fresh) |-> [i |-> k, sid |-> fresh[k]] ],
                               LAMBDA e : \A k \in 1..(e.i - 1) : fresh[k] # e.sid)
         IN  by_strat_keys(appts, Tail(ids), seen \o [ k \in 1..Len(once) |-> once[k].sid ])

\* by_strat[sid][bucket]: one entry per occurrence of sid in the applied list
RECURSIVE by_strat_group_unsplit(_, _, _, _)
by_strat_group_unsplit(appts, ids, sid, bucket) ==
    IF ids = <<>> THEN <<>>
    ELSE LET hits == SelectSeq(appts[Head(ids)].strategy_applied_ids, LAMBDA s : s = sid)
         IN  [ k \in 1..Len(hits) |-> Head(ids) ] \o by_strat_group_unsplit(appts, Tail(ids), sid, bucket)

RECURSIVE by_strat_group(_, _, _, _)
by_strat_group(appts, ids, sid, bucket) ==
    IF ids = <<>> THEN <<>>
    ELSE LET a == appts[Head(ids)]
             hits == SelectSeq(a.strategy_applied_ids, LAMBDA s : s = sid)
         IN  (IF VariantKey(a.strategy_variant) = bucket
              THEN [ k \in 1..Len(hits) |-> Head(ids) ] ELSE <<>>)
             \o by_strat_group(appts, Tail(ids), sid, bucket)

stat(appts, arr) ==
    IF arr = <<>> THEN { [count |-> 0, pred_no_show_rate |-> 0, obs_no_show_rate |-> 0] }
    ELSE { [count |-> Len(arr), pred_no_show_rate |-> p, obs_no_show_rate |-> ob] :
             p \in rate3(sum_live(appts, arr), Len(arr)),
             ob \in rate3(1000 * Len(no_shows_of(appts, arr)), Len(arr)) }

RECURSIVE ab_outcomes_of(_, _, _, _)
ab_outcomes_of(st, d, prev, sids) ==
    IF sids = <<>> THEN { <<>> }
    ELSE { << [ dayIndex |-> d, strategy_id |-> Head(sids),
                strategy_name |-> st.strategies[Head(sids)].name, A |-> sa, B |-> sb ] >> \o rest :
             sa \in stat(st.appointments, by_strat_group(st.appointments, prev, Head(sids), "A")),
             sb \in stat(st.appointments, by_strat_group(st.appointments, prev, Head(sids), "B")),
             rest \in ab_outcomes_of(st, d, prev, Tail(sids)) }

\* the A/B breakdown of the settled day d
ab_outcomes(st, d) ==
    LET prev == ids_on_day(st.appointments, d, 1)
    IN  ab_outcomes_of(st, d, prev, by_strat_keys(st.appointments, prev, <<>>))

agg(appts, arr) ==
    LET completed == finished_of(appts, arr)
        c == Len(completed)
    IN  IF c = 0
        THEN { [total |-> Len(arr), completed |-> 0, success_observed |-> 0, pred_no_show_rate |-> 0] }
        ELSE { [total |-> Len(arr), completed |-> c, success_observed |-> so, pred_no_show_rate |-> p] :
                 so \in rate3(1000 * (c - Len(no_shows_of(appts, completed))), c),
                 p \in rate3(sum_live(appts, completed), c) }

RECURSIVE ab_today_of(_, _, _)
ab_today_of(st, ids, sids) ==
    IF sids = <<>> THEN { <<>> }
    ELSE { << [ strategy_id |-> Head(sids), strategy_name |-> st.strategies[Head(sids)].name,
                A |-> ga, B |-> gb ] >> \o rest :
             ga \in agg(st.appointments, by_strat_group(st.appointments, ids, Head(sids), "A")),
             gb \in agg(st.appointments, by_strat_group(st.appointments, ids, Head(sids), "B")),
             rest \in ab_today_of(st, ids, Tail(sids)) }

\* the summaries summarize_day(day_index) can return
summarize_day(st, day_index) ==
    LET appts == ids_on_day(st.appointments, day_index, 1)
        today == day_index = st.todayIndex
        n     == Len(appts)
    IN  IF appts = <<>>
        THEN { [ dayIndex |-> day_index, date_iso |-> iso_date_for_day(day_index),
                 avg_static_risk |-> 0, avg_live_risk |-> 0,
                 dist_live |-> _dist_from_values(<<>>),
                 strategies_applied |-> {},
                 outcomes_recorded_today |-> IF today THEN Some(0) ELSE Absent,
                 accuracy_today |-> Absent, today_pred_vs_obs |-> Absent,
                 pred_vs_obs |-> Absent, ab_outcomes |-> <<>>, ab_today |-> <<>>,
                 todayIndex |-> st.todayIndex ] }
        ELSE { [ dayIndex |-> day_index, date_iso |-> iso_date_for_day(day_index),
                 avg_static_risk |-> as, avg_live_risk |-> al,
                 dist_live |-> _dist_from_values(live_values(st.appointments, appts)),
                 strategies_applied |-> strategies_applied(st, appts),
                 outcomes_recorded_today |->
                     IF today THEN Some(Len(finished_of(st.appointments, appts))) ELSE Absent,
                 accuracy_today |-> acc, today_pred_vs_obs |-> tpo,
                 pred_vs_obs |-> pvo, ab_outcomes |-> abo, ab_today |-> abt,
                 todayIndex |-> st.todayIndex ] :
                 as \in rate3(sum_static(st.appointments, appts), n),
                 al \in rate3(sum_live(st.appointments, appts), n),
                 acc \in (IF today THEN accuracy_today(st, appts) ELSE {Absent}),
                 tpo \in (IF today THEN today_pred_vs_obs(st, appts) ELSE {Absent}),
                 pvo \in pred_vs_obs(st, day_index),
                 abo \in (IF pred_vs_obs(st, day_index) # {Absent}
                          THEN ab_outcomes(st, day_index - 1) ELSE { <<>> }),
                 abt \in (IF today
                          THEN ab_today_of(st, appts, by_strat_keys(st.appointments, appts, <<>>))
                          ELSE { <<>> }) }

(***************************************************************************)
(* Requests the model draws from                                           *)
(***************************************************************************)
EmptyBody == [k \in {} |-> 0]
Days == 0..MaxDay
\* hours by which the wall clock moves between two requests
TimeSteps == {13}
FreshStrategyIds == {"s3"}
UnknownStrategy == "sx"
PatchTargets == {"s1", UnknownStrategy}

AdvanceBodies(t) ==
    { EmptyBody,
      [toDayIndex |-> t + 1],
      [toDayIndex |-> t],
      [toDate |-> iso_date_for_day(t + 1)],
      [toDate |-> iso_date_for_day(t + 2)],
      [toDate |-> iso_date_for_day(t + 1), toDayIndex |-> t + 2] }

SameDayAb == [split |-> 1000, A |-> Variant("call", <<0>>), B |-> Variant("sms", <<0>>)]

CreateBodies ==
    { [name |-> "Same Day Call", ab |-> SameDayAb],
      [id |-> "s1", name |-> "Replacement", ab |-> SameDayAb],
      [ab |-> SameDayAb],
      [name |-> "No Split", ab |-> [A |-> Variant("sms", <<-1>>), B |-> Variant("sms", <<-1>>)]] }

\* a JSON list where a variant block is expected: .get on it raises
EmptyList == <<>>
FaultyPatchBodies ==
    { [ name |-> "Renamed", ab |-> [ split |-> 0, A |-> EmptyList ] ] }
PatchBodies ==
    { [name |-> "Renamed", ab |-> [split |-> 0, A |-> [days_of_action |-> <<0>>], B |-> [type |-> "call"]]] }

DeployLists == { <<>>, <<"s2", "s1", "sd">>, <<"sx", "s3">> }
DeployTargets == {SEED_DAY, SEED_DAY + 1}
\* the appointments the manual requests name
ManualTargets == DOMAIN appointments \cup {UnknownAppt}
PatchAny == DOMAIN seed_strategies \cup {UnknownStrategy}

(***************************************************************************)
(* Routes.  Each takes the request and o: whether the response is recorded *)
(* in resp (the specifications that do not observe responses leave it).    *)
(***************************************************************************)
\* the handlers in flight, one per thread of the server: the statement each
\* has reached and its local variables
Handlers == 1..MaxInFlight
IdleHandler == [pc |-> "idle", t |-> 0, order |-> <<>>, idx |-> 0, appt_id |-> None]
AllIdle == \A h \in Handlers : inflight[h].pc = "idle"

\* a request handled from its first statement to its last leaves the handlers
\* in flight where they are
Respond(o, op, status, processed) ==
    /\ resp' = IF o THEN Response(op, status, processed) ELSE resp
    /\ UNCHANGED inflight

Untouched ==
    UNCHANGED <<todayIndex, appointments, strategies, deployments, logs,
                intraday, same_day_comms_done, now>>

\* GET /api/day/<dayIndex>/summary and GET /api/appointments?dayIndex=
\* the list route answers with the list (not recorded), the summary route with
\* one of the summaries summarize_day can return
SummaryResponse(s) == [op |-> "day_summary", status |-> 200, processed |-> None, summary |-> s]
ReadDayWith(op, d, o) ==
    LET st == IF d = todayIndex THEN compute_live_adjustments_for_today(State) ELSE State
    IN  /\ Install(st)
        /\ IF op = "day_summary"
           THEN /\ \E s \in summarize_day(st, d) : resp' = IF o THEN SummaryResponse(s) ELSE resp
                /\ UNCHANGED inflight
           ELSE Respond(o, op, 200, None)
        /\ UNCHANGED <<deployments, now>>

DaySummaryByIndex(o) == \E d \in Days : ReadDayWith("day_summary", d, o)

AppointmentsList(o) == \E d \in Days : ReadDayWith("appointments_list", d, o)

invalid_strategy(data) ==
    \/ ~Has(data, "name")
    \/ ~Has(data, "ab")
    \/ ~Has(data.ab, "A") \/ ~Has(data.ab, "B") \/ ~Has(data.ab, "split")

created_strategy(data, s_id) ==
    [ id |-> s_id,
      name |-> data.name,
      is_default |-> IF Has(data, "is_default") THEN data.is_default ELSE FALSE,
      segment |-> IF Has(data, "segment") THEN data.segment ELSE NoSegment,
      ab |-> [ split |-> data.ab.split,
               A |-> Variant(data.ab.A.type, data.ab.A.days_of_action),
               B |-> Variant(data.ab.B.type, data.ab.B.days_of_action) ] ]

put_strategy(strats, strat) ==
    [ k \in DOMAIN strats \cup {strat.id} |-> IF k = strat.id THEN strat ELSE strats[k] ]

\* the strategies that are not as seeded
Unseeded(strats) ==
    { k \in DOMAIN strats : k \notin DOMAIN seed_strategies \/ strats[k] # seed_strategies[k] }

\* the manual comms made so far, over all appointments
RECURSIVE ManualIn(_)
ManualIn(h) ==
    IF h = <<>> THEN 0
    ELSE (IF Head(h).note \in {"manual_send", "manual_call"} THEN 1 ELSE 0) + ManualIn(Tail(h))
RECURSIVE SumOver(_, _)
SumOver(f, S) == IF S = {} THEN 0 ELSE LET x == CHOOSE y \in S : TRUE IN f[x] + SumOver(f, S \ {x})
ManualCount(appts) == SumOver([id \in DOMAIN appts |-> ManualIn(appts[id].comms_history)],
                              DOMAIN appts)
\* the requests beyond the daily routine made so far: manual comms, and
\* strategies created or patched
Extras(appts, strats) == ManualCount(appts) + Cardinality(Unseeded(strats))

\* POST /api/strategies
StrategiesCreateWith(data, o) ==
    IF invalid_strategy(data)
    THEN /\ Respond(o, "strategies_create", 400, None)
         /\ Untouched
    ELSE /\ \E s_id \in (IF Has(data, "id") THEN {data.id}
                         ELSE FreshStrategyIds \ DOMAIN strategies) :
               strategies' = put_strategy(strategies, created_strategy(data, s_id))
         /\ Extras(appointments, strategies') <= MaxExtras
         /\ Respond(o, "strategies_create", 201, None)
         /\ UNCHANGED <<todayIndex, appointments, deployments, logs,
                        intraday, same_day_comms_done, now>>

StrategiesCreate(bodies, o) == \E data \in bodies : StrategiesCreateWith(data, o)

patch_variant(variant, ab, key) ==
    IF ~Has(ab, key) THEN variant
    ELSE [ type |-> IF Has(ab[key], "type") THEN ab[key].type ELSE variant.type,
           days_of_action |-> IF Has(ab[key], "days_of_action")
                              THEN ab[key].days_of_action ELSE variant.days_of_action ]

bad_block(ab, key) == Has(ab, key) /\ ab[key] = EmptyList

\* the handler raises part-way through the ab block
patch_raises(data) ==
    Has(data, "ab") /\ (bad_block(data.ab, "A") \/ bad_block(data.ab, "B"))

\* the assignments made up to the return, or up to the statement that raises
patched_strategy(strat, data) ==
    LET s1 == [ strat EXCEPT
                  !.name = IF Has(data, "name") THEN data.name ELSE @,
                  !.is_default = IF Has(data, "is_default") THEN data.is_default ELSE @,
                  !.segment = IF Has(data, "segment") THEN data.segment ELSE @ ]
    IN  IF ~Has(data, "ab") THEN s1
        ELSE LET s2 == [ s1 EXCEPT !.ab.split = IF Has(data.ab, "split") THEN data.ab.split ELSE @ ]
             IN  IF bad_block(data.ab, "A") THEN s2
                 ELSE LET s3 == [ s2 EXCEPT !.ab.A = patch_variant(@, data.ab, "A") ]
                      IN  IF bad_block(data.ab, "B") THEN s3
                          ELSE [ s3 EXCEPT !.ab.B = patch_variant(@, data.ab, "B") ]

StrategiesPatchReassigning(sid, data, o) ==
    IF sid \notin DOMAIN strategies
    THEN /\ Respond(o, "strategies_patch", 404, None)
         /\ Untouched
    ELSE /\ strategies' = [strategies EXCEPT ![sid] = patched_strategy(@, data)]
         /\ Extras(appointments, strategies') <= MaxExtras
         /\ appointments' = [ id \in DOMAIN appointments |->
                                IF Contains(appointments[id].strategy_applied_ids, sid)
                                THEN [appointments[id] EXCEPT !.strategy_variant = "A"]
                                ELSE appointments[id] ]
         /\ Respond(o, "strategies_patch", IF patch_raises(data) THEN 500 ELSE 200, None)
         /\ UNCHANGED <<todayIndex, deployments, logs, intraday, same_day_comms_done, now>>

\* PATCH /api/strategies/<sid>
StrategiesPatchWith(sid, data, o) ==
    IF sid \notin DOMAIN strategies
    THEN /\ Respond(o, "strategies_patch", 404, None)
         /\ Untouched
    ELSE /\ strategies' = [strategies EXCEPT ![sid] = patched_strategy(@, data)]
         /\ Extras(appointments, strategies') <= MaxExtras
         /\ Respond(o, "strategies_patch", IF patch_raises(data) THEN 500 ELSE 200, None)
         /\ UNCHANGED <<todayIndex, appointments, deployments, logs,
                        intraday, same_day_comms_done, now>>

StrategiesPatch(sids, bodies, o) ==
    \E sid \in sids, data \in bodies : StrategiesPatchWith(sid, data, o)

\* POST /api/deploy
DeployRouteWith(target_day, strat_ids, o) ==
    IF strat_ids = <<>> \/ window_exceeded(State, target_day, strat_ids)
    THEN /\ Respond(o, "deploy", 400, None)
         /\ Untouched
    ELSE /\ Len(deployments) < MaxDeploys
         /\ \E st \in deploy(State, target_day, strat_ids) : Install(st)
         /\ deployments' = Append(deployments, dep_rec(State, target_day, strat_ids))
         /\ Respond(o, "deploy", 200, None)
         /\ UNCHANGED now

DeployRoute(targets, lists, o) ==
    \E target_day \in targets, strat_ids \in lists : DeployRouteWith(target_day, strat_ids, o)

manual_comm(st, id, kind, note, text) ==
    LET s1 == [st EXCEPT !.appointments[id].comms_history = Append(@, comms_entry(st, id, kind, note))]
    IN  log_event(s1, st.todayIndex, id, kind, st.appointments[id].strategy_variant,
                  Msg(text, 0), None, None)

\* POST /api/actions/send_sms
ActionSendSmsWith(appt_id, o) ==
    IF appt_id \notin DOMAIN appointments
    THEN /\ Respond(o, "send_sms", 404, None)
         /\ Untouched
    ELSE /\ Extras(appointments, strategies) < MaxExtras
         /\ \E st \in simulate_reply(manual_comm(State, appt_id, "sms", "manual_send", "template"),
                                     todayIndex, appt_id) :
               Install(compute_live_adjustments_for_today(st))
         /\ Respond(o, "send_sms", 200, None)
         /\ UNCHANGED <<deployments, now>>

ActionSendSms(ids, o) == \E appt_id \in ids : ActionSendSmsWith(appt_id, o)

\* POST /api/actions/call_now
ActionCallNowWith(appt_id, o) ==
    IF appt_id \notin DOMAIN appointments
    THEN /\ Respond(o, "call_now", 404, None)
         /\ Untouched
    ELSE /\ Extras(appointments, strategies) < MaxExtras
         /\ Install(compute_live_adjustments_for_today(
                        manual_comm(State, appt_id, "call", "manual_call", "call logged")))
         /\ Respond(o, "call_now", 200, None)
         /\ UNCHANGED <<deployments, now>>

ActionCallNow(ids, o) == \E appt_id \in ids : ActionCallNowWith(appt_id, o)

advance_rejected_index_only(data, start) ==
    Has(data, "toDayIndex") /\ data.toDayIndex # start + 1
\* either check of simulate_advance fails
advance_rejected(data, start) ==
    \/ Has(data, "toDate") /\ day_index_from_date(data.toDate) # start + 1
    \/ Has(data, "toDayIndex") /\ data.toDayIndex # start + 1

advance_day_end_fill_first(st) ==
    LET t == st.todayIndex
        filled == end_of_day_fill_no_reply_eod(st, t)
        swept == UNION { run_scheduled_comms_for_day(s, t) : s \in filled }
    IN  UNION { settle_outcomes_for_day(s, t) : s \in swept }
\* the steps of an accepted advance up to the increment, in the order of the code
advance_day_end(st) ==
    LET t == st.todayIndex
        swept == run_scheduled_comms_for_day(st, t)
        filled == UNION { end_of_day_fill_no_reply_eod(s, t) : s \in swept }
    IN  UNION { settle_outcomes_for_day(s, t) : s \in filled }

advance_day_start_skipping(st) ==
    compute_live_adjustments_for_today([st EXCEPT !.todayIndex = st.todayIndex + 2])
\* the increment and the entry into the new day
advance_day_start(st) ==
    compute_live_adjustments_for_today([st EXCEPT !.todayIndex = st.todayIndex + 1])

advance_steps(st) == { advance_day_start(s) : s \in advance_day_end(st) }

\* POST /api/simulate/advance
SimulateAdvanceWith(data, o) ==
    IF advance_rejected(data, todayIndex)
    THEN /\ Respond(o, "advance", 400, None)
         /\ Untouched
    ELSE /\ todayIndex < MaxDay
         /\ \E st \in advance_steps(State) : Install(st)
         /\ Respond(o, "advance", 200, None)
         /\ UNCHANGED <<deployments, now>>

SimulateAdvance(o) == \E data \in AdvanceBodies(todayIndex) : SimulateAdvanceWith(data, o)

\* list.sort(key=ts) on a copy: the entry goes after those not later than it
RECURSIVE insert_by_ts(_, _)
insert_by_ts(sorted, l) ==
    IF sorted = <<>> THEN <<l>>
    ELSE IF Head(sorted).ts <= l.ts
         THEN <<Head(sorted)>> \o insert_by_ts(Tail(sorted), l)
         ELSE <<l>> \o sorted

RECURSIVE sort_by_ts(_)
sort_by_ts(items) ==
    IF items = <<>> THEN <<>>
    ELSE insert_by_ts(sort_by_ts(SubSeq(items, 1, Len(items) - 1)), items[Len(items)])

\* the entries of the appointments of day d, by timestamp
logs_list(st, d) ==
    sort_by_ts(SelectSeq(st.logs, LAMBDA l : l.appointment_day_index = d))

\* GET /api/logs?date=
LogsList(o) ==
    /\ Respond(o, "logs", 200, None)
    /\ Untouched

\* GET /api/simulate/status
SimulateStatus(o) ==
    /\ Install(init_intraday_for_today(State, FALSE))
    /\ Respond(o, "status", 200, None)
    /\ UNCHANGED <<deployments, now>>

\* the appointment at the cursor is settled, if still unknown, and logged
tick_process_last(st, t) ==
    LET intr == st.intraday
        appt_id == intr.order[Len(intr.order)]
        appt == st.appointments[appt_id]
        settled == IF appt.outcome = "unknown"
                   THEN { log_event([st EXCEPT !.appointments[appt_id].outcome = o], t, appt_id,
                                    "outcome", appt.strategy_variant, Msg("finalized", 0), None, o) :
                            o \in draw_outcome(appt.live_adjusted_risk) }
                   ELSE {st}
    IN  { [s EXCEPT !.intraday.next_idx = intr.next_idx + 1,
                    !.intraday.last_processed_id = appt_id] : s \in settled }

tick_process(st, t) ==
    LET intr == st.intraday
        appt_id == intr.order[intr.next_idx + 1]
        appt == st.appointments[appt_id]
        settled == IF appt.outcome = "unknown"
                   THEN { log_event([st EXCEPT !.appointments[appt_id].outcome = o], t, appt_id,
                                    "outcome", appt.strategy_variant, Msg("finalized", 0), None, o) :
                            o \in draw_outcome(appt.live_adjusted_risk) }
                   ELSE {st}
    IN  { [s EXCEPT !.intraday.next_idx = intr.next_idx + 1,
                    !.intraday.last_processed_id = appt_id] : s \in settled }

tick_exhausted(intr) == intr.next_idx >= Len(intr.order)

tick_today_unfilled(st) ==
    LET s0 == init_intraday_for_today(st, FALSE)
    IN  IF s0.intraday.next_idx < Len(s0.intraday.order)
        THEN tick_process(s0, st.todayIndex) ELSE {s0}

tick_today(st) ==
    LET t == st.todayIndex
        s0 == init_intraday_for_today(st, FALSE)
        stepped == IF s0.intraday.next_idx < Len(s0.intraday.order)
                   THEN tick_process(s0, t) ELSE {s0}
    IN  UNION { IF tick_exhausted(s.intraday) THEN end_of_day_fill_no_reply_eod(s, t) ELSE {s} :
                  s \in stepped }

\* the id in the response's "processed", None when the cursor was exhausted
tick_processed(st) ==
    LET s0 == init_intraday_for_today(st, FALSE)
    IN  IF s0.intraday.next_idx < Len(s0.intraday.order)
        THEN s0.intraday.order[s0.intraday.next_idx + 1] ELSE None

\* POST /api/simulate/tick_today
SimulateTickToday(o) ==
    /\ \E st \in tick_today(State) : Install(st)
    /\ Respond(o, "tick", 200, tick_processed(State))
    /\ UNCHANGED <<deployments, now>>

\* POST /api/simulate/tick_today handled by thread h while other threads run:
\* the server is threaded and the handlers take no lock, so another handler
\* can run between any two statements.  The statements are grouped into five
\* steps; the threads switch between the steps.
\* step 1: t = todayIndex; init_intraday_for_today(); order, idx, total
TickBegin(h) ==
    /\ inflight[h].pc = "idle"
    /\ LET st == init_intraday_for_today(State, FALSE)
       IN  /\ Install(st)
           /\ inflight' = [inflight EXCEPT ![h] =
                  [ pc |-> "begun", t |-> st.todayIndex, order |-> st.intraday.order,
                    idx |-> st.intraday.next_idx, appt_id |-> None ]]
    /\ UNCHANGED <<deployments, now, resp>>

\* step 2: if idx < total: appt = appointments[order[idx]];
\*         if appt["outcome"] == "unknown"
TickTest(h) ==
    LET me == inflight[h]
    IN  /\ me.pc = "begun"
        /\ inflight' = [inflight EXCEPT ![h] =
               IF me.idx < Len(me.order)
               THEN [me EXCEPT !.appt_id = me.order[me.idx + 1],
                               !.pc = IF appointments[me.order[me.idx + 1]].outcome = "unknown"
                                      THEN "settling" ELSE "settled"]
               ELSE [me EXCEPT !.pc = "stepped"]]
        /\ UNCHANGED <<todayIndex, appointments, strategies, deployments, logs,
                       intraday, same_day_comms_done, now, resp>>

\* step 3: p = live risk; appt["outcome"] = the draw; log_event(type="outcome")
TickSettle(h) ==
    LET me == inflight[h]
        appt == appointments[me.appt_id]
    IN  /\ me.pc = "settling"
        /\ \E o \in draw_outcome(appt.live_adjusted_risk) :
              Install(log_event([State EXCEPT !.appointments[me.appt_id].outcome = o], me.t,
                                me.appt_id, "outcome", appt.strategy_variant,
                                Msg("finalized", 0), None, o))
        /\ inflight' = [inflight EXCEPT ![h].pc = "settled"]
        /\ UNCHANGED <<deployments, now, resp>>

\* step 4: intr["next_idx"] = idx + 1; intr["last_processed_id"] = appt["id"]
TickMove(h) ==
    LET me == inflight[h]
    IN  /\ me.pc = "settled"
        /\ intraday' = [intraday EXCEPT !.next_idx = me.idx + 1,
                                        !.last_processed_id = me.appt_id]
        /\ inflight' = [inflight EXCEPT ![h].pc = "stepped"]
        /\ UNCHANGED <<todayIndex, appointments, strategies, deployments, logs,
                       same_day_comms_done, now, resp>>

\* step 5: if intr["next_idx"] >= total: end_of_day_fill_no_reply_eod(t);
\*         the response carries the appointment processed
TickFinish(h) ==
    LET me == inflight[h]
    IN  /\ me.pc = "stepped"
        /\ \E st \in (IF intraday.next_idx >= Len(me.order)
                       THEN end_of_day_fill_no_reply_eod(State, me.t) ELSE {State}) : Install(st)
        /\ resp' = Response("tick", 200, me.appt_id)
        /\ inflight' = [inflight EXCEPT ![h] = IdleHandler]
        /\ UNCHANGED <<deployments, now>>

\* a day advance requested while no other request is in flight
AdvanceAlone == AllIdle /\ SimulateAdvance(FALSE)

\* Wall-clock time passes between two requests.  The clock is read only to
\* compare it with the ts of a "yes" reply, so its passing is modelled while
\* such a reply is within the window.
PassTime ==
    /\ \E k \in 1..Len(logs) : logs[k].reply = "yes" /\ logs[k].ts >= now - TWELVE_HOURS
    /\ \E dt \in TimeSteps : now + dt <= MaxNow /\ now' = now + dt
    /\ UNCHANGED <<todayIndex, appointments, strategies, deployments, logs,
                   intraday, same_day_comms_done, resp, inflight>>

(***************************************************************************)
(* The prediction API (src/api/main.py), a separate stateless service       *)
(***************************************************************************)
\* probabilities are integers out of ProbabilityOne; the model's output is
\* drawn in hundredths and every multiplier is applied as an exact fraction
ProbabilityOne == 1000000000
BAD_WEATHER_FACTOR == 955
TRANSPORT_FACTOR == 85
ENGAGED_FACTOR == 111

\* the requests drawn: the body given, its fields, and the probability the
\* model returns for them
PredictRequests ==
    [ given : {"nothing", "partial", "all"}, sex : {0, 1, 2}, date_valid : BOOLEAN,
      age : {0, 40}, bad_weather : BOOLEAN, transport_issues : BOOLEAN,
      patient_engaged : BOOLEAN, will_attend_probability : {0, 50, 85, 100} ]

\* the reason the request is answered 400, None when it is valid
predict_rejected(data) ==
    IF data.given = "nothing" THEN "No JSON data provided"
    ELSE IF data.given = "partial" THEN "Missing required fields"
    ELSE IF data.sex \notin {0, 1} THEN "sex must be 0 (male) or 1 (female)"
    ELSE IF ~data.date_valid THEN "date_of_appointment must be in dd/mm/yyyy format"
    ELSE IF ~(1 <= data.age /\ data.age <= 120) THEN "age must be a valid age between 1-120 years"
    ELSE None

\* the optional multipliers, then max(0.0, min(1.0, .))
engaged_multiplier(data) == IF data.patient_engaged THEN ENGAGED_FACTOR ELSE 100

final_prediction(data) ==
    LET weather   == IF data.bad_weather THEN BAD_WEATHER_FACTOR ELSE 1000
        transport == IF data.transport_issues THEN TRANSPORT_FACTOR ELSE 100
        base_prediction ==
            data.will_attend_probability * weather * transport * engaged_multiplier(data)
        capped == IF base_prediction > ProbabilityOne THEN ProbabilityOne ELSE base_prediction
    IN  IF capped < 0 THEN 0 ELSE capped

predict(data) ==
    IF predict_rejected(data) # None
    THEN [ op |-> "predict", status |-> 400, request |-> data, error |-> predict_rejected(data) ]
    ELSE [ op |-> "predict", status |-> 200, request |-> data,
           prediction |-> final_prediction(data),
           predicted_attendance |-> IF 2 * final_prediction(data) >= ProbabilityOne THEN 1 ELSE 0 ]

\* POST /predict: resp holds the request, the handler replaces it by the answer
PredictRoute ==
    /\ resp.op = "predict_request"
    /\ resp' = predict(resp.request)
    /\ UNCHANGED <<todayIndex, appointments, strategies, deployments, logs,
                   intraday, same_day_comms_done, now, inflight>>

(***************************************************************************)
(* Specifications                                                          *)
(***************************************************************************)
InitWith(ids) ==
    /\ todayIndex = 0
    /\ appointments = seed_appointments(ids)
    /\ strategies = seed_strategies
    /\ deployments = <<>>
    /\ logs = <<>>
    /\ intraday = EmptyIntraday
    /\ same_day_comms_done = {}
    /\ now = 0
    /\ resp = Response("seed", 200, None)
    /\ inflight = [h \in Handlers |-> IdleHandler]

\* every route, responses not observed
Routes ==
    \/ DaySummaryByIndex(FALSE)
    \/ AppointmentsList(FALSE)
    \/ LogsList(FALSE)
    \/ StrategiesCreate(CreateBodies, FALSE)
    \/ StrategiesPatch(PatchTargets, PatchBodies, FALSE)
    \/ DeployRoute(DeployTargets, DeployLists, FALSE)
    \/ ActionSendSms(ManualTargets, FALSE)
    \/ ActionCallNow(ManualTargets, FALSE)
    \/ SimulateAdvance(FALSE)
    \/ SimulateStatus(FALSE)
    \/ SimulateTickToday(FALSE)
    \/ PassTime

\* one appointment in both non-default segments
Init == InitWith({"a1"})
Next == Routes
Spec == Init /\ [][Next]_vars

\* one appointment at either end of the risk range
InitEdge == InitWith({"a4"}) \/ InitWith({"a5"})
SpecEdge == InitEdge /\ [][Next]_vars

\* one appointment in no non-default segment; any seeded strategy may be patched
InitDefault == InitWith({"a2"})
NextDefault ==
    \/ DaySummaryByIndex(FALSE)
    \/ AppointmentsList(FALSE)
    \/ StrategiesCreate(CreateBodies, FALSE)
    \/ StrategiesPatch(PatchAny, PatchBodies, FALSE)
    \/ DeployRoute(DeployTargets, DeployLists, FALSE)
    \/ ActionSendSms(ManualTargets, FALSE)
    \/ ActionCallNow(ManualTargets, FALSE)
    \/ SimulateAdvance(FALSE)
    \/ SimulateStatus(FALSE)
    \/ SimulateTickToday(FALSE)
    \/ PassTime
SpecDefault == InitDefault /\ [][NextDefault]_vars

\* two appointments, the daily routine
InitPair == InitWith({"a1", "a2"})
NextPair ==
    \/ DaySummaryByIndex(FALSE)
    \/ AppointmentsList(FALSE)
    \/ DeployRoute(DeployTargets, DeployLists, FALSE)
    \/ SimulateAdvance(FALSE)
    \/ SimulateStatus(FALSE)
    \/ SimulateTickToday(FALSE)
SpecPair == InitPair /\ [][NextPair]_vars

\* the clock and the cursor, responses observed
NextClock ==
    \/ DaySummaryByIndex(TRUE)
    \/ AppointmentsList(TRUE)
    \/ DeployRoute(DeployTargets, DeployLists, TRUE)
    \/ SimulateAdvance(TRUE)
    \/ SimulateStatus(TRUE)
    \/ SimulateTickToday(TRUE)
SpecClock == Init /\ [][NextClock]_vars

\* the end-to-end scenario: the default strategy (SMS at offset -1, split 1.0)
\* deployed to the appointment of static risk 0.70
ScenarioLists == { <<"sd">> }
NextScenario ==
    \/ DaySummaryByIndex(TRUE)
    \/ SimulateStatus(TRUE)
    \/ DeployRoute(DeployTargets, ScenarioLists, FALSE)
    \/ SimulateAdvance(FALSE)
    \/ SimulateTickToday(FALSE)
    \/ PassTime
SpecScenario == Init /\ [][NextScenario]_vars

\* the strategy, deployment and manual-comm requests, responses observed
NextRequests ==
    \/ StrategiesCreate(CreateBodies, TRUE)
    \/ StrategiesPatch(PatchAny, PatchBodies \cup FaultyPatchBodies, TRUE)
    \/ DeployRoute(DeployTargets, DeployLists, TRUE)
    \/ ActionSendSms(ManualTargets, TRUE)
    \/ ActionCallNow(ManualTargets, TRUE)
    \/ SimulateAdvance(FALSE)
SpecRequests == Init /\ [][NextRequests]_vars

\* the summaries of a day of three appointments in three buckets, and of a
\* day whose appointment the risk provider rated 1.0
InitSummary == InitWith({"a6", "a2", "a7"}) \/ InitWith({"a10"})
NextSummary ==
    \/ DaySummaryByIndex(TRUE)
    \/ DeployRoute(DeployTargets, ScenarioLists, TRUE)
    \/ SimulateAdvance(TRUE)
    \/ SimulateTickToday(TRUE)
SpecSummary == InitSummary /\ [][NextSummary]_vars

\* two appointments that the default strategy's SMS brings to 0.6 and 0.4
InitAb == InitWith({"a8", "a9"})
SpecAb == InitAb /\ [][NextSummary]_vars

\* two appointments; tick requests handled by concurrent threads, the day
\* advanced between them
NextThreads ==
    \/ \E h \in Handlers : TickBegin(h)
    \/ \E h \in Handlers : TickTest(h)
    \/ \E h \in Handlers : TickSettle(h)
    \/ \E h \in Handlers : TickMove(h)
    \/ \E h \in Handlers : TickFinish(h)
    \/ AdvanceAlone
SpecThreads == InitPair /\ [][NextThreads]_vars

\* two appointments, the clock and the cursor, responses observed
SpecPairClock == InitPair /\ [][NextClock]_vars

\* two appointments, the daily routine, the day advanced again and again
\* (the advance is the only step that moves the clock, and it can be taken
\* whenever the clock is below the last modelled day)
ClockMoves == todayIndex < MaxDay /\ todayIndex' = todayIndex + 1
SpecPairAdvancing == SpecPair /\ WF_todayIndex(ClockMoves)

\* deployments of a strategy that acts on the day itself, asked for the seed
\* day before, on and after that day
LateTargets == {SEED_DAY}
LateLists == { <<"sx", "s3">> }
NextLate ==
    \/ StrategiesCreate(CreateBodies, FALSE)
    \/ DeployRoute(LateTargets, LateLists, TRUE)
    \/ SimulateAdvance(FALSE)
    \/ SimulateTickToday(FALSE)
SpecLate == Init /\ [][NextLate]_vars

\* the prediction service: it shares no state with the engine, whose
\* variables stay empty; a request is drawn and answered
InitPredict ==
    /\ todayIndex = 0
    /\ appointments = seed_appointments({})
    /\ strategies = seed_strategies
    /\ deployments = <<>>
    /\ logs = <<>>
    /\ intraday = EmptyIntraday
    /\ same_day_comms_done = {}
    /\ now = 0
    /\ inflight = [h \in Handlers |-> IdleHandler]
    /\ resp \in { [op |-> "predict_request", request |-> data] : data \in PredictRequests }
NextPredict == PredictRoute
SpecPredict == InitPredict /\ [][NextPredict]_vars

(***************************************************************************)
(* Properties                                                              *)
(***************************************************************************)
Appt(id) == appointments[id]
\* the log entries of the comms the scheduler fired for id
ScheduledFirings(id) ==
    { k \in 1..Len(logs) :
        logs[k].appointment_id = id /\ IsComm(logs[k]) /\ logs[k].message.text = "sent" }
RepliesOf(id, reply) ==
    { k \in 1..Len(logs) :
        logs[k].appointment_id = id /\ logs[k].type = "reply" /\ logs[k].reply = reply }

\* C1: in every reachable state every appointment's live_adjusted_risk lies
\* in [0.01, 0.99], the static risks being seeded in that range.
C1_LiveRiskClamped ==
    \A id \in DOMAIN appointments :
        Appt(id).live_adjusted_risk >= 10 /\ Appt(id).live_adjusted_risk <= 990

\* the silence lift on 0.99 was clamped back to 0.99
C1_Witness ==
    \E id \in DOMAIN appointments :
        /\ Appt(id).static_risk = 990
        /\ Appt(id).live_adjustment_applied
        /\ Appt(id).comms_history = <<>>
        /\ Appt(id).live_adjusted_risk = 990

\* C2: the live-adjustment recompute is idempotent within a day: a second
\* invocation leaves every live risk and live prediction as the first left
\* them, and an appointment whose flag is set is not adjusted again.
C2_RecomputeIdempotent ==
    LET once == compute_live_adjustments_for_today(State)
        twice == compute_live_adjustments_for_today(once)
    IN  \A id \in DOMAIN appointments :
            /\ twice.appointments[id].live_adjusted_risk = once.appointments[id].live_adjusted_risk
            /\ twice.appointments[id].predicted_outcome_live = once.appointments[id].predicted_outcome_live
            /\ Appt(id).live_adjustment_applied =>
                  /\ once.appointments[id].live_adjusted_risk = Appt(id).live_adjusted_risk
                  /\ once.appointments[id].predicted_outcome_live = Appt(id).predicted_outcome_live

\* the day's adjustment has run, and running its effect again would move the risk
C2_Witness ==
    \E id \in DOMAIN appointments :
        /\ Appt(id).dayIndex = todayIndex
        /\ Appt(id).live_adjustment_applied
        /\ todayIndex \in same_day_comms_done
        /\ adjusted_live(State, id) # Appt(id).live_adjusted_risk

\* C3: for an appointment with one applied strategy whose active variant has
\* days_of_action = [-1], the scheduled comm fires at most once, only with
\* send day = dayIndex - 1, and exactly once when the clock has reached the
\* appointment's day.
C3_OffsetMinusOne ==
    \A id \in DOMAIN appointments :
        LET a == Appt(id)
            sids == a.strategy_applied_ids
        IN  ( /\ Len(sids) = 1
              /\ strategies[sids[1]].ab[VariantKey(a.strategy_variant)].days_of_action = <<-1>> )
            => /\ \A k \in ScheduledFirings(id) : logs[k].send_day_index = a.dayIndex - 1
               /\ Cardinality(ScheduledFirings(id)) <= 1
               /\ todayIndex >= a.dayIndex => Cardinality(ScheduledFirings(id)) = 1

C3_Witness ==
    \E id \in DOMAIN appointments :
        /\ Len(Appt(id).strategy_applied_ids) = 1
        /\ strategies[Appt(id).strategy_applied_ids[1]].ab[VariantKey(Appt(id).strategy_variant)].days_of_action = <<-1>>
        /\ todayIndex > Appt(id).dayIndex
        /\ Cardinality(ScheduledFirings(id)) = 1

\* the non-default strategies of a request that match the appointment, in order
Matching(appt, chosen) ==
    SelectSeq(chosen, LAMBDA strat : ~strat.is_default /\ in_segment(appt, strat))
IdsOf(strats) == { strats[j].id : j \in 1..Len(strats) }
SeqSet(seq) == { seq[j] : j \in 1..Len(seq) }

\* C4: in a deployment with a default strategy, an appointment of the target
\* day matched by a non-default strategy of the request is given no default
\* id and no default draw; the default goes to the unmatched ones only.
C4_DefaultOnlyUnmatched ==
    \A target \in DeployTargets, ids \in DeployLists :
        LET chosen == chosen_of(strategies, ids)
            d == first_default(chosen)
        IN  d # 0 =>
            \A st \in deploy(State, target, ids) :
                \A id \in DOMAIN appointments :
                    LET before == Appt(id)
                        after == st.appointments[id]
                        new == SeqSet(after.strategy_applied_ids) \ SeqSet(before.strategy_applied_ids)
                        m == Matching(before, chosen)
                    IN  IF before.dayIndex # target THEN after = before
                        ELSE IF m # <<>>
                             THEN /\ chosen[d].id \notin new
                                  /\ new \subseteq IdsOf(m)
                                  /\ \E j \in 1..Len(m) : after.strategy_variant \in pick_variant(m[j].ab.split)
                             ELSE /\ chosen[d].id \in SeqSet(after.strategy_applied_ids)
                                  /\ new \subseteq {chosen[d].id}
                                  /\ after.strategy_variant \in pick_variant(chosen[d].ab.split)

\* one deployment gave a1 its two non-default strategies and a2 the default
C4_Witness ==
    /\ Len(deployments) = 1
    /\ deployments[1].strategy_ids = <<"s2", "s1", "sd">>
    /\ Appt("a1").strategy_applied_ids = <<"s2", "s1">>
    /\ Appt("a2").strategy_applied_ids = <<"sd">>
    /\ Appt("a2").strategy_variant = "A"

\* C5: once an appointment's outcome is attended or no-show, no step changes it.
C5_OutcomeMonotonic ==
    [][\A id \in DOMAIN appointments :
          Appt(id).outcome # "unknown" => appointments'[id].outcome = Appt(id).outcome]_vars

\* settled by a tick on its day, then passed over by the end-of-day settlement
C5_Witness ==
    \E id \in DOMAIN appointments :
        /\ Appt(id).outcome # "unknown"
        /\ todayIndex > Appt(id).dayIndex
        /\ \E k \in 1..Len(logs) : logs[k].appointment_id = id /\ logs[k].type = "outcome"

CoreUnchanged ==
    UNCHANGED <<todayIndex, appointments, strategies, deployments, logs,
                intraday, same_day_comms_done>>

\* the target a request names differs from the day after today
TargetDiffers(data) ==
    \/ Has(data, "toDate") /\ data.toDate # iso_date_for_day(todayIndex + 1)
    \/ Has(data, "toDayIndex") /\ data.toDayIndex # todayIndex + 1

\* C6: an advance whose toDate or toDayIndex differs from today+1 is answered
\* 400 and leaves today, the appointments, the log and the cursor as they were.
C6_AdvanceRestricted ==
    [][\A data \in AdvanceBodies(todayIndex) :
          (SimulateAdvanceWith(data, TRUE) /\ TargetDiffers(data))
              => (resp'.status = 400 /\ resp'.op = "advance" /\ CoreUnchanged)]_vars

\* a rejected advance on a day whose advance would have fired a comm
C6_Witness ==
    /\ resp.op = "advance"
    /\ resp.status = 400
    /\ todayIndex = 1
    /\ Appt("a1").strategy_applied_ids # <<>>

SmsLogs(id) == { k \in 1..Len(logs) : logs[k].appointment_id = id /\ logs[k].type = "sms" }

\* C7 as stated: with the strategy deployed, once the clock is at day 1 the
\* SMS has fired and the live risk is 0.63.
C7_FiredOnReachingDay1 ==
    (Appt("a1").strategy_applied_ids = <<"sd">> /\ todayIndex = 1)
        => (SmsLogs("a1") # {} /\ Appt("a1").live_adjusted_risk = 630)

\* C7, amended: the SMS fires in the advance that ends day 1.  Until then no
\* SMS is logged and the live risk is 0.70; the sweep of that advance takes
\* it to 0.63; and after the advance one SMS with send day 1 is logged and
\* the day-2 adjustment has left 0.378 (reply yes), 0.63 (reply no) or 0.68
\* (no reply).
C7_SmsFiresAtEndOfDay1 ==
    LET a == Appt("a1")
    IN  a.strategy_applied_ids = <<"sd">> =>
        /\ todayIndex <= 1 => (SmsLogs("a1") = {} /\ a.live_adjusted_risk = 700)
        /\ todayIndex = 1 =>
              \A st \in advance_day_end(State) :
                  st.appointments["a1"].live_adjusted_risk = 630
        /\ todayIndex >= 2 =>
              /\ Cardinality(SmsLogs("a1")) = 1
              /\ \A k \in SmsLogs("a1") : logs[k].send_day_index = 1
              /\ a.live_adjusted_risk =
                    IF RepliesOf("a1", "yes") # {} THEN 378
                    ELSE IF RepliesOf("a1", "no") # {} THEN 630 ELSE 680

C7_Witness ==
    /\ Appt("a1").strategy_applied_ids = <<"sd">>
    /\ todayIndex = 2
    /\ Cardinality(SmsLogs("a1")) = 1
    /\ RepliesOf("a1", "no") # {}
    /\ Appt("a1").live_adjusted_risk = 630

YesLogged(st, id) ==
    \E k \in 1..Len(st.logs) :
        /\ st.logs[k].appointment_id = id
        /\ st.logs[k].type = "reply"
        /\ st.logs[k].reply = "yes"

\* C8: for the scenario's appointment at live risk 0.63 after the SMS, with a
\* "yes" reply logged within 12 hours, the next recompute sets the live risk
\* to 0.378 and the live prediction goes from no-show to attend.
C8_ConfirmationAfterSms ==
    LET a == Appt("a1")
    IN  a.strategy_applied_ids = <<"sd">> =>
        /\ todayIndex = 1 =>
              \A st \in advance_day_end(State) :
                  YesLogged(st, "a1") =>
                      /\ st.appointments["a1"].live_adjusted_risk = 630
                      /\ st.appointments["a1"].predicted_outcome_live = "dna"
                      /\ advance_day_start(st).appointments["a1"].live_adjusted_risk = 378
                      /\ advance_day_start(st).appointments["a1"].predicted_outcome_live = "attend"
        /\ (todayIndex >= 2 /\ YesLogged(State, "a1")) =>
              /\ a.live_adjusted_risk = 378
              /\ a.predicted_outcome_live = "attend"

C8_Witness ==
    /\ Appt("a1").strategy_applied_ids = <<"sd">>
    /\ todayIndex = 2
    /\ YesLogged(State, "a1")
    /\ Appt("a1").live_adjustment_applied
    /\ Appt("a1").live_adjusted_risk = 378

\* what one deployment must leave in an appointment's applied list
RECURSIVE AppendAbsent(_, _)
AppendAbsent(seq, ids) ==
    IF ids = <<>> THEN seq
    ELSE AppendAbsent(IF Contains(seq, Head(ids)) THEN seq ELSE Append(seq, Head(ids)), Tail(ids))

\* C9 as stated: of the non-default strategies of one deployment only the
\* first that matches is recorded for an appointment.
C9_FirstMatchOnly ==
    Len(deployments) = 1 =>
        \A id \in DOMAIN appointments :
            Cardinality({ j \in 1..Len(Appt(id).strategy_applied_ids) :
                            ~strategies[Appt(id).strategy_applied_ids[j]].is_default }) <= 1

\* C9, amended: deploy evaluates the non-default strategies in the given
\* order and applies every one whose segment matches: each is recorded, in
\* that order, and each redraws the variant, so the variant is drawn from the
\* last matching strategy.
C9_EveryMatchLastWins ==
    \A target \in DeployTargets, ids \in DeployLists :
        \A st \in deploy(State, target, ids) :
            \A id \in DOMAIN appointments :
                LET before == Appt(id)
                    after == st.appointments[id]
                    m == Matching(before, chosen_of(strategies, ids))
                IN  (before.dayIndex = target /\ m # <<>>) =>
                        /\ after.strategy_applied_ids =
                              AppendAbsent(before.strategy_applied_ids,
                                           [j \in 1..Len(m) |-> m[j].id])
                        /\ after.strategy_variant \in pick_variant(m[Len(m)].ab.split)

\* s1 patched to split 0 and listed after s2: both recorded, variant B from s1
C9_Witness ==
    /\ Len(deployments) = 1
    /\ deployments[1].strategy_ids = <<"s2", "s1", "sd">>
    /\ strategies["s1"].ab.split = 0
    /\ Appt("a1").strategy_applied_ids = <<"s2", "s1">>
    /\ Appt("a1").strategy_variant = "B"

\* C10: the comm of an offset-0 variant is logged at most once on the
\* appointment's day.
C10_SameDayFiresOnce ==
    \A id \in DOMAIN appointments :
        Cardinality({ k \in ScheduledFirings(id) :
                        /\ logs[k].message.offset = 0
                        /\ logs[k].send_day_index = Appt(id).dayIndex }) <= 1

\* C11: a manual send_sms or call_now multiplies the appointment's live risk
\* by the kind's factor, as a scheduled comm of that kind does: an
\* appointment whose only comm so far is a manual one, and whose day's
\* adjustment has not run, stands at round(clamp(static * factor), 3).
C11_ManualAppliesFactor ==
    \A id \in DOMAIN appointments :
        LET a == Appt(id)
        IN  ( /\ Len(a.comms_history) = 1
              /\ a.comms_history[1].note \in {"manual_send", "manual_call"}
              /\ ~a.live_adjustment_applied )
            => a.live_adjusted_risk =
                  round3(clamp01(a.static_risk * Factor(a.comms_history[1].type)))

\* the cursor as a tick finds it on today
CursorToday == init_intraday_for_today(State, FALSE).intraday
\* the appointments with a comm logged on day t and no reply logged on day t
Unanswered(st, t) ==
    { id \in DOMAIN st.appointments :
        /\ \E k \in 1..Len(st.logs) :
              /\ st.logs[k].appointment_id = id
              /\ st.logs[k].send_day_index = t
              /\ IsComm(st.logs[k])
        /\ ~\E k \in 1..Len(st.logs) :
              /\ st.logs[k].appointment_id = id
              /\ st.logs[k].send_day_index = t
              /\ st.logs[k].type = "reply" }
Appended(st) == SubSeq(st.logs, Len(logs) + 1, Len(st.logs))
IsPrefix(seq, longer) ==
    Len(seq) <= Len(longer) /\ SubSeq(longer, 1, Len(seq)) = seq

\* C12 as stated: a tick on an exhausted cursor leaves the appointments, the
\* cursor and the event log unchanged.
C12_TickNoOp ==
    tick_exhausted(CursorToday) =>
        \A st \in tick_today(State) :
            /\ st.appointments = appointments
            /\ st.intraday.next_idx = CursorToday.next_idx
            /\ st.intraday.order = CursorToday.order
            /\ st.logs = logs

\* C12, amended: a tick on an exhausted cursor returns no processed item and
\* leaves the appointments and the cursor unchanged; it still runs the
\* end-of-day fill, so it appends one no_reply_eod entry for each appointment
\* with a comm logged today and no reply logged today, and nothing else; a
\* tick right after it changes nothing.
C12_TickPastExhaustion ==
    tick_exhausted(CursorToday) =>
        /\ tick_processed(State) = None
        /\ \A st \in tick_today(State) :
              /\ st.appointments = appointments
              /\ st.intraday = CursorToday
              /\ IsPrefix(logs, st.logs)
              /\ Len(Appended(st)) = Cardinality(Unanswered(State, todayIndex))
              /\ \A k \in 1..Len(Appended(st)) :
                    /\ Appended(st)[k].type = "reply"
                    /\ Appended(st)[k].reply = "no_reply_eod"
                    /\ Appended(st)[k].send_day_index = todayIndex
                    /\ Appended(st)[k].appointment_id \in Unanswered(State, todayIndex)
              /\ tick_today(st) = {st}

\* the queue of the appointment's day is exhausted and a manual comm made
\* since then is unanswered
C12_Witness ==
    /\ intraday.dayIndex = todayIndex
    /\ intraday.order # <<>>
    /\ tick_exhausted(intraday)
    /\ Unanswered(State, todayIndex) # {}

\* the largest |offset| over both variants of the requested strategies that exist
LargestOffset(ids) ==
    LET known == { ids[j] : j \in { i \in 1..Len(ids) : ids[i] \in DOMAIN strategies } }
        mags == { Abs(x) : x \in UNION { SeqSet(strategies[sid].ab.A.days_of_action)
                                           \cup SeqSet(strategies[sid].ab.B.days_of_action) :
                                         sid \in known } }
    IN  IF mags = {} THEN 0 ELSE CHOOSE m \in mags : \A n \in mags : n <= m

\* C13: a deploy request naming strategies is answered 400, with appointments,
\* strategies and deployments unchanged, when the largest |offset| of the
\* requested strategies exceeds targetDay - today; otherwise it is applied
\* and its record, target day and the known strategy ids, is stored.
C13_DeployWindow ==
    [][\A target \in DeployTargets, ids \in DeployLists \ {<<>>} :
          DeployRouteWith(target, ids, TRUE) =>
              IF LargestOffset(ids) > target - todayIndex
              THEN /\ resp'.status = 400
                   /\ UNCHANGED <<appointments, strategies, deployments>>
              ELSE /\ resp'.status = 200
                   /\ Len(deployments') = Len(deployments) + 1
                   /\ deployments'[Len(deployments')].target_day = target
                   /\ SeqSet(deployments'[Len(deployments')].strategy_ids) =
                         SeqSet(ids) \cap DOMAIN strategies
                   /\ \E st \in deploy(State, target, ids) : appointments' = st.appointments
                   /\ UNCHANGED strategies]_vars

\* a same-day strategy deployed on the appointment's day itself, and a
\* day-before strategy refused there
C13_Witness ==
    /\ todayIndex = SEED_DAY
    /\ resp.op = "deploy"
    /\ resp.status = 400
    /\ "s3" \in DOMAIN strategies

\* C14: deploy(targetDay, ids) leaves every appointment of another day as it
\* was, and with it the clock, the cursor, the same-day set, the strategies
\* and the event log.
C14_DeployFrame ==
    \A target \in Days, ids \in DeployLists :
        \A st \in deploy(State, target, ids) :
            /\ \A id \in DOMAIN appointments :
                  Appt(id).dayIndex # target => st.appointments[id] = Appt(id)
            /\ DOMAIN st.appointments = DOMAIN appointments
            /\ st.todayIndex = todayIndex
            /\ st.intraday = intraday
            /\ st.same_day_comms_done = same_day_comms_done
            /\ st.strategies = strategies
            /\ st.logs = logs

\* a deployment to the day after the appointments' day matched and changed none
C14_Witness ==
    /\ Len(deployments) = 1
    /\ deployments[1].target_day = SEED_DAY + 1
    /\ deployments[1].strategy_ids = <<"s2", "s1", "sd">>
    /\ \A id \in DOMAIN appointments :
          /\ Appt(id).dayIndex # SEED_DAY + 1
          /\ Appt(id).strategy_applied_ids = <<>>
          /\ Appt(id).strategy_variant = None
    /\ logs # <<>>

\* C15: todayIndex changes only in an accepted advance, which adds exactly 1
\* to it; every other request leaves it as it is.
C15_ClockStepsByOne ==
    [][todayIndex' # todayIndex =>
          /\ todayIndex' = todayIndex + 1
          /\ \E data \in AdvanceBodies(todayIndex) :
                ~TargetDiffers(data) /\ SimulateAdvanceWith(data, FALSE)]_vars

\* the clock has been advanced past the appointments' day, among other requests
C15_Witness ==
    /\ todayIndex = SEED_DAY + 1
    /\ \E k \in 1..Len(logs) : logs[k].send_day_index < todayIndex - 1
    /\ \E id \in DOMAIN appointments : ManualIn(Appt(id).comms_history) > 0

IsFill(l) == l.type = "reply" /\ l.reply = "no_reply_eod"

\* C16: in an advance from day t the scheduled comms and their replies come
\* first, then the no-reply fill, then the settlement, all logged with send
\* day t; only then today becomes t+1, the new day's live adjustment runs
\* and the cursor is rebuilt for t+1.
C16_AdvanceOrder ==
    \A st \in advance_steps(State) :
        LET t == todayIndex
            new == Appended(st)
            old == { k \in 1..Len(new) : new[k].send_day_index = t }
        IN  /\ IsPrefix(logs, st.logs)
            \* the entries of day t precede those of the entry into day t+1
            /\ \A k \in 1..Len(new) :
                  \/ k \in old /\ \A j \in 1..k : j \in old
                  \/ /\ new[k].send_day_index = t + 1
                     /\ IsComm(new[k])
                     /\ new[k].message = Msg("sent", 0)
            \* no comm or simulated reply of day t follows a fill entry
            /\ \A j, k \in old : (j < k /\ IsFill(new[j])) => IsFill(new[k])
            \* the fill saw every comm of the sweep
            /\ Unanswered(st, t) = {}
            \* the settlement of day t has run
            /\ \A id \in DOMAIN appointments :
                  /\ Appt(id).dayIndex = t => st.appointments[id].outcome # "unknown"
                  /\ Appt(id).dayIndex # t => st.appointments[id].outcome = Appt(id).outcome
            \* the entry into day t+1
            /\ st.todayIndex = t + 1
            /\ t + 1 \in st.same_day_comms_done
            /\ \A id \in DOMAIN appointments :
                  Appt(id).dayIndex = t + 1 => st.appointments[id].live_adjustment_applied
            /\ st.intraday.dayIndex = t + 1
            /\ st.intraday.next_idx = 0
            /\ st.intraday.order = sort_by_time(appointments, ids_on_day(appointments, t + 1, 1))

\* an advance out of the appointment's day swept a comm, filled its missing
\* reply and settled the appointment without a tick
C16_Witness ==
    /\ todayIndex = SEED_DAY + 1
    /\ \E id \in DOMAIN appointments :
          /\ Appt(id).outcome # "unknown"
          /\ ~\E k \in 1..Len(logs) : logs[k].type = "outcome"
          /\ \E j, k \in 1..Len(logs) :
                /\ j < k
                /\ logs[j].appointment_id = id /\ logs[k].appointment_id = id
                /\ logs[j].message = Msg("sent", 0) /\ logs[j].send_day_index = SEED_DAY
                /\ IsFill(logs[k]) /\ logs[k].send_day_index = SEED_DAY

\* the appointments with a comm logged on day t
Contacted(st, t) ==
    { st.logs[k].appointment_id :
        k \in { n \in 1..Len(st.logs) : st.logs[n].send_day_index = t /\ IsComm(st.logs[n]) } }

\* what the fill for day made of state s
FillEffect(s, day, st) ==
    LET new == SubSeq(st.logs, Len(s.logs) + 1, Len(st.logs))
    IN  /\ Unanswered(st, day) = {}
        /\ IsPrefix(s.logs, st.logs)
        /\ Len(new) = Cardinality(Unanswered(s, day))
        /\ { new[k].appointment_id : k \in 1..Len(new) } = Unanswered(s, day)
        /\ \A k \in 1..Len(new) : IsFill(new[k]) /\ new[k].send_day_index = day
        /\ st.appointments = s.appointments

\* C17: after the end-of-day fill for a day, every appointment with an sms
\* or call entry of that day has a reply-type entry of that day; one
\* no_reply_eod entry was appended for exactly those that had none; and no
\* appointment's risk, prediction or anything else was changed.  Checked on
\* the state as it is and as the day's sweep leaves it.
C17_FillCoversSilence ==
    \A s \in {State} \cup run_scheduled_comms_for_day(State, todayIndex) :
        \A st \in end_of_day_fill_no_reply_eod(s, todayIndex) :
            FillEffect(s, todayIndex, st)

\* of two appointments contacted on the same day, one replied and the other
\* was filled in
C17_Witness ==
    \E day \in Days, id, other \in DOMAIN appointments :
        /\ id # other
        /\ {id, other} \subseteq Contacted(State, day)
        /\ \E k \in 1..Len(logs) :
              /\ logs[k].appointment_id = id /\ logs[k].send_day_index = day
              /\ IsFill(logs[k])
        /\ \E k \in 1..Len(logs) :
              /\ logs[k].appointment_id = other /\ logs[k].send_day_index = day
              /\ logs[k].type = "reply" /\ logs[k].reply \in {"yes", "no"}
        /\ ~\E k \in 1..Len(logs) :
              /\ logs[k].appointment_id = other /\ logs[k].send_day_index = day
              /\ IsFill(logs[k])

\* C18: a PATCH of a strategy changes nothing but that strategy's name,
\* is_default, segment and ab: every appointment keeps its variant and its
\* applied-strategy list, and every other strategy stays as it is.
C18_PatchFrame ==
    [][\A sid \in PatchAny, data \in PatchBodies \cup FaultyPatchBodies :
          StrategiesPatchWith(sid, data, TRUE) =>
              /\ \A id \in DOMAIN appointments :
                    /\ appointments'[id].strategy_variant = Appt(id).strategy_variant
                    /\ appointments'[id].strategy_applied_ids = Appt(id).strategy_applied_ids
              /\ appointments' = appointments
              /\ DOMAIN strategies' = DOMAIN strategies
              /\ \A k \in DOMAIN strategies :
                    /\ strategies'[k].id = strategies[k].id
                    /\ k # sid => strategies'[k] = strategies[k]
              /\ UNCHANGED <<todayIndex, deployments, logs, intraday>>]_vars

\* a strategy patched after it gave an appointment variant B
C18_Witness ==
    /\ resp.op = "strategies_patch"
    /\ resp.status = 200
    /\ \E id \in DOMAIN appointments, sid \in DOMAIN seed_strategies :
          /\ Contains(Appt(id).strategy_applied_ids, sid)
          /\ Appt(id).strategy_variant = "B"
          /\ strategies[sid] # seed_strategies[sid]
          /\ strategies[sid].name = "Renamed"

Referenced(sid) == \E j \in 1..Len(deployments) : Contains(deployments[j].strategy_ids, sid)

\* C19: a strategy that a deployment has referenced changes only in a PATCH
\* of that strategy; no other request alters or replaces it.
C19_ReferencedImmutable ==
    [][\A sid \in DOMAIN strategies :
          (Referenced(sid) /\ strategies'[sid] # strategies[sid]) =>
              \E data \in PatchBodies \cup FaultyPatchBodies :
                  StrategiesPatchWith(sid, data, TRUE)]_vars

\* C20: a request that fails as not-found (manual comm for an unknown
\* appointment, patch of an unknown strategy) or as invalid (strategy payload
\* without name, ab, A, B or split; patch with a malformed ab block; deploy
\* without strategy ids) changes none of the appointments, strategies,
\* deployments, log, clock and cursor.
C20_FailuresMutateNothing ==
    [][/\ \A id \in ManualTargets \ DOMAIN appointments :
             (ActionSendSmsWith(id, TRUE) \/ ActionCallNowWith(id, TRUE)) => CoreUnchanged
       /\ \A sid \in PatchAny \ DOMAIN strategies, data \in PatchBodies :
             StrategiesPatchWith(sid, data, TRUE) => CoreUnchanged
       /\ \A data \in { d \in CreateBodies : invalid_strategy(d) } :
             StrategiesCreateWith(data, TRUE) => CoreUnchanged
       /\ \A target \in DeployTargets :
             DeployRouteWith(target, <<>>, TRUE) => CoreUnchanged
       /\ \A sid \in DOMAIN strategies, data \in FaultyPatchBodies :
             StrategiesPatchWith(sid, data, TRUE) => CoreUnchanged]_vars

\* C21 as stated: a summary request for any day leaves the appointments, the
\* log, the clock and the cursor as they were.
C21_SummaryReadOnly ==
    [][\A d \in Days : ReadDayWith("day_summary", d, FALSE) => CoreUnchanged]_vars

\* C21, amended: a summary request never changes an appointment, the event
\* log, the clock, a strategy or a deployment.  For another day than today,
\* or once today's entry has run, it changes nothing at all; the one request
\* that changes state is a summary of today before today's entry has run
\* (day 0, before any other request): it runs the entry, which marks the day
\* in the same-day guard and builds the cursor for the day.
C21_SummaryRunsDayEntry ==
    [][\A d \in Days :
          ReadDayWith("day_summary", d, FALSE) =>
              /\ UNCHANGED <<todayIndex, appointments, strategies, deployments, logs>>
              /\ (d # todayIndex \/ todayIndex \in same_day_comms_done) => CoreUnchanged
              /\ (d = todayIndex /\ todayIndex \notin same_day_comms_done) =>
                    /\ same_day_comms_done' = same_day_comms_done \cup {todayIndex}
                    /\ intraday' = init_intraday_for_today(State, FALSE).intraday]_vars

\* the summary of day 0 was the first request served
C21_Witness ==
    /\ todayIndex = 0
    /\ same_day_comms_done = {0}
    /\ intraday.dayIndex = 0
    /\ logs = <<>>
    /\ deployments = <<>>
    /\ strategies = seed_strategies

\* C22: the event log is append-only: every step leaves the entries already
\* logged in place and unchanged, and can only add entries after them.
C22_LogAppendOnly ==
    [][IsPrefix(logs, logs')]_vars

\* a log with comms, a reply, a fill and an outcome, read back after later steps
C22_Witness ==
    /\ \E k \in 1..Len(logs) : IsComm(logs[k])
    /\ \E k \in 1..Len(logs) : IsFill(logs[k])
    /\ \E k \in 1..Len(logs) : logs[k].type = "outcome"
    /\ \E k \in 1..Len(logs) : logs[k].send_day_index < todayIndex
    /\ \A k \in 1..Len(logs) : logs[k].id = k

\* C23: every appointment whose outcome is attended or no-show has an
\* "outcome" entry in the event log.
C23_OutcomesLogged ==
    \A id \in DOMAIN appointments :
        Appt(id).outcome # "unknown" =>
            \E k \in 1..Len(logs) :
                /\ logs[k].appointment_id = id
                /\ logs[k].type = "outcome"
                /\ logs[k].outcome = Appt(id).outcome

\* the ids of the day before today, and whether that day is fully settled
Yesterday == ids_on_day(appointments, todayIndex - 1, 1)
YesterdaySettled ==
    /\ todayIndex >= 1
    /\ Yesterday # <<>>
    /\ \A j \in 1..Len(Yesterday) : appointments[Yesterday[j]].outcome # "unknown"

\* C24 (as stated): whenever today >= 1 and every appointment of day today-1
\* has an outcome, the summary of the current day reports the predicted-vs-
\* observed no-show rate of day today-1.  Violated: a summary of a day without
\* appointments returns before that part is computed, and every appointment is
\* seeded on day 2, so on day 3 the summary of today reports none.
C24_SettledDayReported ==
    (resp.op = "day_summary" /\ resp.summary.dayIndex = todayIndex /\ YesterdaySettled)
        => resp.summary.pred_vs_obs # Absent

RECURSIVE SeqSum(_)
SeqSum(seq) == IF seq = <<>> THEN 0 ELSE Head(seq) + SeqSum(Tail(seq))

\* C25 (as stated): the histogram puts every value of [0,1] in exactly one
\* bucket, the last bucket taking 1.0, so the counts of a summary add up to the
\* number of appointments of the day.  Violated: every bucket tests
\* lo <= v < hi, so a risk of 1.0 is counted nowhere.
C25_EveryValueCounted ==
    resp.op = "day_summary"
        => SeqSum(resp.summary.dist_live)
             = Len(ids_on_day(appointments, resp.summary.dayIndex, 1))

\* the live risks of the appointments of day d, in the order of the store
LiveOn(d) == live_values(appointments, ids_on_day(appointments, d, 1))

\* C26: a day with three appointments of live risk 0.15, 0.45 and 0.85 has the
\* live-risk distribution [1,0,1,0,1] in its summary
C26_HistogramScenario ==
    (resp.op = "day_summary" /\ LiveOn(resp.summary.dayIndex) = <<450, 150, 850>>)
        => resp.summary.dist_live = <<1, 0, 1, 0, 1>>

C26_Witness ==
    /\ resp.op = "day_summary"
    /\ resp.summary.dayIndex = SEED_DAY
    /\ LiveOn(SEED_DAY) = <<450, 150, 850>>
    /\ resp.summary.dist_live = <<1, 0, 1, 0, 1>>

\* the two appointments of the seeded day are settled, one no-show at live
\* risk 0.6 and one attended at 0.4, both under the default strategy, variant A
AbScenario ==
    /\ \A id \in {"a8", "a9"} :
          /\ Appt(id).strategy_applied_ids = <<"sd">>
          /\ VariantKey(Appt(id).strategy_variant) = "A"
    /\ Appt("a8").outcome = "no_show" /\ Appt("a8").live_adjusted_risk = 600
    /\ Appt("a9").outcome = "attended" /\ Appt("a9").live_adjusted_risk = 400

\* C27: two settled appointments of one strategy in variant A, a no-show at
\* live risk 0.6 and an attendance at 0.4, give variant A count 2, predicted
\* no-show rate 0.5 and observed no-show rate 0.5, and variant B count 0
C27_AbAggregation ==
    AbScenario =>
        ab_outcomes(State, SEED_DAY) =
            { << [ dayIndex |-> SEED_DAY, strategy_id |-> "sd",
                   strategy_name |-> strategies["sd"].name,
                   A |-> [count |-> 2, pred_no_show_rate |-> 500, obs_no_show_rate |-> 500],
                   B |-> [count |-> 0, pred_no_show_rate |-> 0, obs_no_show_rate |-> 0] ] >> }

C27_Witness ==
    /\ AbScenario
    /\ todayIndex = SEED_DAY + 1
    /\ \E abo \in ab_outcomes(State, SEED_DAY) : abo[1].A.count = 2 /\ abo[1].B.count = 0

\* the outcome entries the log holds for appointment id
OutcomeLogs(id) == { k \in 1..Len(logs) : logs[k].type = "outcome" /\ logs[k].appointment_id = id }

\* C28 (as stated): concurrent requests are serialized, so no appointment is
\* settled twice or receives two outcome entries, and no cursor position is
\* processed twice.  Violated: the handlers take no lock and the server is
\* threaded; two ticks that both read the cursor and both test the outcome
\* before either writes settle the same appointment twice.
C28_Serialized ==
    \A id \in DOMAIN appointments : Cardinality(OutcomeLogs(id)) <= 1

\* the cursor as built for day d from the appointments appts
FreshCursor(appts, d) ==
    [ dayIndex |-> d, order |-> sort_by_time(appts, ids_on_day(appts, d, 1)),
      next_idx |-> 0, last_processed_id |-> None ]

\* C29: a step that advances the day leaves the cursor freshly built for the
\* new today (its day, that day's appointments in order of scheduled time,
\* pointer 0, no last processed id); a step within a day that has appointments
\* never rebuilds it (same day, same queue, the pointer does not move back)
C29_CursorReset ==
    [][ /\ todayIndex' # todayIndex =>
              /\ todayIndex' = todayIndex + 1
              /\ intraday' = FreshCursor(appointments', todayIndex')
        /\ (todayIndex' = todayIndex /\ ids_on_day(appointments, todayIndex, 1) # <<>>) =>
              /\ intraday.dayIndex = todayIndex
              /\ intraday'.dayIndex = intraday.dayIndex
              /\ intraday'.order = intraday.order
              /\ intraday'.next_idx >= intraday.next_idx ]_vars

C29_Witness ==
    /\ todayIndex = SEED_DAY
    /\ intraday = [ dayIndex |-> SEED_DAY, order |-> <<"a2", "a1">>,
                    next_idx |-> 0, last_processed_id |-> None ]

\* the outcome entries a step appends for appointment id
NewOutcomeLogs(id) ==
    { k \in (Len(logs) + 1)..Len(logs') :
        logs'[k].type = "outcome" /\ logs'[k].appointment_id = id }

\* C30: within a day the pointer moves only by a tick and only by one: the tick
\* returns the next appointment of the queue, which is in ascending order of
\* scheduled time, settles it if its outcome is unknown with one outcome
\* entry, and leaves a settled one as it is; a tick that does not move the
\* pointer found the queue exhausted and returns nothing.  The pointer stays
\* within 0..len(order) and every appointment before it is settled.
C30_TickInOrder ==
    [][ LET cur == init_intraday_for_today(State, FALSE).intraday
            nxt == cur.order[cur.next_idx + 1]
        IN  /\ todayIndex' = todayIndex =>
                 \/ /\ intraday'.next_idx = cur.next_idx
                    /\ resp'.op = "tick" =>
                          (resp'.processed = None /\ cur.next_idx >= Len(cur.order))
                 \/ /\ resp'.op = "tick"
                    /\ cur.next_idx < Len(cur.order)
                    /\ intraday'.order = cur.order
                    /\ intraday'.next_idx = cur.next_idx + 1
                    /\ intraday'.last_processed_id = nxt
                    /\ resp'.processed = nxt
                    /\ appointments'[nxt].outcome # "unknown"
                    /\ Cardinality(NewOutcomeLogs(nxt))
                         = (IF Appt(nxt).outcome = "unknown" THEN 1 ELSE 0)
                    /\ Appt(nxt).outcome # "unknown" => appointments'[nxt].outcome = Appt(nxt).outcome
                    /\ \A id \in DOMAIN appointments \ {nxt} :
                          appointments'[id] = Appt(id) /\ NewOutcomeLogs(id) = {}
            /\ intraday'.next_idx \in 0..Len(intraday'.order)
            /\ \A j \in 1..intraday'.next_idx :
                  appointments'[intraday'.order[j]].outcome # "unknown"
            /\ \A j, k \in 1..Len(intraday'.order) :
                  j < k => appointments'[intraday'.order[j]].hour
                             <= appointments'[intraday'.order[k]].hour ]_vars

\* the second tick of the seeded day returned the later of the two appointments
C30_Witness ==
    /\ todayIndex = SEED_DAY
    /\ intraday.order = <<"a2", "a1">>
    /\ intraday.next_idx = 2
    /\ resp.op = "tick" /\ resp.processed = "a1"
    /\ \A id \in {"a1", "a2"} : Appt(id).outcome # "unknown" /\ Cardinality(OutcomeLogs(id)) = 1

\* the state in which an advance calls the recompute: the old day closed, the
\* clock moved, the same-day comms of the new day fired
EnteringDay == { [mid EXCEPT !.todayIndex = @ + 1] : mid \in advance_day_end(State) }

\* a "yes" reply for id within the trailing 12 hours; a yes or no reply at all
YesWithin12h(st, id) ==
    \E k \in 1..Len(st.logs) :
        /\ st.logs[k].appointment_id = id /\ st.logs[k].type = "reply"
        /\ st.logs[k].reply = "yes" /\ now - st.logs[k].ts <= TWELVE_HOURS
YesOrNoEver(st, id) ==
    \E k \in 1..Len(st.logs) :
        /\ st.logs[k].appointment_id = id /\ st.logs[k].type = "reply"
        /\ st.logs[k].reply # "no_reply_eod"

\* C31: one run of the recompute gives an appointment of today whose flag is
\* not set exactly one of: risk x 0.60 when a "yes" reply was logged within 12
\* hours; else risk + 0.05 when no yes/no reply was ever logged (a no_reply_eod
\* entry is no reply) and the risk exceeds 0.4; else the risk as it was.  The
\* changed risk is clamped, the prediction recomputed and the flag set.  An
\* appointment of another day, or one whose flag is set, is left as it is.
C31_RecomputeEffects ==
    todayIndex < MaxDay =>
    \A entering \in EnteringDay :
        LET pre  == run_same_day_comms_once(entering)
            post == compute_live_adjustments_for_today(entering)
        IN  \A id \in DOMAIN appointments :
                LET b == pre.appointments[id]
                    a == post.appointments[id]
                IN  IF b.dayIndex # pre.todayIndex \/ b.live_adjustment_applied
                    THEN a = b
                    ELSE /\ a.live_adjustment_applied
                         /\ a.predicted_outcome_live = predicted_outcome_from_risk(a.live_adjusted_risk)
                         /\ a = [b EXCEPT !.live_adjusted_risk = a.live_adjusted_risk,
                                          !.predicted_outcome_live = a.predicted_outcome_live,
                                          !.live_adjustment_applied = TRUE]
                         /\ IF YesWithin12h(pre, id)
                            THEN a.live_adjusted_risk = round3(clamp01(b.live_adjusted_risk * CONFIRM_12H_FACTOR))
                            ELSE IF ~YesOrNoEver(pre, id) /\ b.live_adjusted_risk > SILENCE_MIN
                                 THEN /\ a.live_adjusted_risk
                                           = round3(clamp01((b.live_adjusted_risk + SILENCE_LIFT) * 1000))
                                      /\ a.live_adjusted_risk <= CLAMP_HI
                                 ELSE a.live_adjusted_risk = b.live_adjusted_risk

\* the recompute of the appointment's day lifted an appointment whose only
\* reply entry is the end-of-day fill
C31_Witness ==
    \E id \in DOMAIN appointments :
        /\ todayIndex = Appt(id).dayIndex
        /\ Appt(id).live_adjustment_applied
        /\ \E k \in 1..Len(logs) : logs[k].appointment_id = id /\ IsFill(logs[k])
        /\ ~YesOrNoEver(State, id)
        /\ Appt(id).live_adjusted_risk = Appt(id).static_risk + SILENCE_LIFT

\* C32: each appointment's live prediction is the threshold of its current
\* live risk (no-show from 0.50 up, attend below) and its static prediction
\* the threshold of its static risk
C32_PredictionsMatchRisk ==
    \A id \in DOMAIN appointments :
        /\ Appt(id).predicted_outcome_live
             = (IF Appt(id).live_adjusted_risk >= PRED_THRESHOLD THEN "dna" ELSE "attend")
        /\ Appt(id).predicted_outcome_static
             = (IF Appt(id).static_risk >= PRED_THRESHOLD THEN "dna" ELSE "attend")

\* a comm or a confirmation took an appointment seeded as a no-show below 0.50
C32_Witness ==
    \E id \in DOMAIN appointments :
        /\ Appt(id).static_risk >= PRED_THRESHOLD
        /\ Appt(id).live_adjusted_risk < PRED_THRESHOLD
        /\ Appt(id).comms_history # <<>>
        /\ Appt(id).predicted_outcome_static = "dna"
        /\ Appt(id).predicted_outcome_live = "attend"

\* C33: every appointment whose day lies before today is settled, and when
\* the day keeps being advanced every appointment's outcome eventually leaves
\* unknown
C33_EventuallySettled ==
    /\ [](\A id \in DOMAIN appointments :
             Appt(id).dayIndex < todayIndex => Appt(id).outcome \in {"attended", "no_show"})
    /\ <>(\A id \in DOMAIN appointments : Appt(id).outcome \in {"attended", "no_show"})

\* the advance out of the seeded day settled an appointment no tick had reached
C33_Witness ==
    /\ todayIndex = SEED_DAY + 1
    /\ \A id \in DOMAIN appointments : Appt(id).outcome \in {"attended", "no_show"}
    /\ \E id \in DOMAIN appointments : OutcomeLogs(id) = {}

\* C34 (as stated): with patient_engaged true the prediction is the model's
\* probability (the engagement multiplier is 1), and with bad_weather,
\* transport_issues and patient_engaged all true it is the probability
\* x 0.955 x 0.85.  Violated: the handler multiplies by 1.11 when
\* patient_engaged is true.
C34_EngagedMultiplierOne ==
    (resp.op = "predict" /\ resp.status = 200 /\ resp.request.patient_engaged) =>
        resp.prediction =
            resp.request.will_attend_probability
              * (IF resp.request.bad_weather THEN BAD_WEATHER_FACTOR ELSE 1000)
              * (IF resp.request.transport_issues THEN TRANSPORT_FACTOR ELSE 100)
              * 100

\* C35 (as stated): once an appointment's outcome is settled, its live risk
\* and live prediction never change again.  Violated: the sweep of the advance
\* out of the appointment's day fires an offset-0 comm for an appointment a
\* tick has already settled.
C35_RiskFrozenAfterSettlement ==
    [][\A id \in DOMAIN appointments :
          Appt(id).outcome # "unknown" =>
              /\ appointments'[id].live_adjusted_risk = Appt(id).live_adjusted_risk
              /\ appointments'[id].predicted_outcome_live = Appt(id).predicted_outcome_live]_vars

\* every applied id is a stored strategy, none is listed twice, and the
\* variant is A or B exactly when a strategy is applied
AppliedWellFormed(st) ==
    \A id \in DOMAIN st.appointments :
        LET a == st.appointments[id]
            applied == a.strategy_applied_ids
        IN  /\ \A j \in 1..Len(applied) : applied[j] \in DOMAIN st.strategies
            /\ \A j, k \in 1..Len(applied) : applied[j] = applied[k] => j = k
            /\ a.strategy_variant \in {"A", "B"} <=> applied # <<>>
            /\ a.strategy_variant \in {"A", "B", None}

\* deployments that name a strategy twice, or again after an earlier one
RepeatedLists == { <<"s1", "s1", "sd", "sd">>, <<"s2", "s1", "sd">>, <<"s3", "sx", "s3">> }

\* C36: in every reachable state, and after any further deployment, every id
\* in an appointment's strategy_applied_ids is a key of the strategy store,
\* the list has no duplicates, and the variant is A or B exactly when the
\* list is non-empty
C36_AppliedIdsValid ==
    /\ AppliedWellFormed(State)
    /\ \A target \in DeployTargets : \A ids \in DeployLists \cup RepeatedLists :
          \A st \in deploy(State, target, ids) : AppliedWellFormed(st)

\* two strategies applied by one deployment, the later draw being B
C36_Witness ==
    /\ Appt("a1").strategy_applied_ids = <<"s2", "s1">>
    /\ Appt("a1").strategy_variant = "B"
    /\ Len(deployments) = 1

\* ---------------------------------------------------------------------------
\* C37: the log holds at most one no_reply_eod entry per appointment and send
\* day, however often the end-of-day fill ran for that day and however many
\* comms the appointment received on it; running the fill again straight
\* away, with no comm in between, changes nothing.
FillsFor(st, id, d) ==
    { k \in 1..Len(st.logs) : /\ IsFill(st.logs[k])
                              /\ st.logs[k].appointment_id = id
                              /\ st.logs[k].send_day_index = d }

CommsFor(st, id, d) ==
    { k \in 1..Len(st.logs) : /\ IsComm(st.logs[k])
                              /\ st.logs[k].appointment_id = id
                              /\ st.logs[k].send_day_index = d }

C37_OneFillPerDay ==
    /\ \A id \in DOMAIN appointments : \A d \in Days :
          Cardinality(FillsFor(State, id, d)) <= 1
    /\ \A d \in Days : \A st \in end_of_day_fill_no_reply_eod(State, d) :
          /\ \A id \in DOMAIN appointments : Cardinality(FillsFor(st, id, d)) <= 1
          /\ end_of_day_fill_no_reply_eod(st, d) = {st}

\* a1 got two comms on an earlier day, which Advance filled once when it
\* closed that day; on its own day it got another, and the tick that exhausted
\* the cursor filled that day once as well
C37_Witness ==
    /\ \E d \in Days : /\ d < todayIndex
                       /\ Cardinality(CommsFor(State, "a1", d)) >= 2
                       /\ Cardinality(FillsFor(State, "a1", d)) = 1
    /\ Cardinality(CommsFor(State, "a1", todayIndex)) >= 1
    /\ Cardinality(FillsFor(State, "a1", todayIndex)) = 1
    /\ intraday.dayIndex = todayIndex
    /\ intraday.order # <<>>
    /\ tick_exhausted(intraday)

\* ---------------------------------------------------------------------------
\* C38: no appointment is settled before its own day: an appointment whose
\* outcome is known has a day index no later than today, and every step that
\* sets an outcome is taken while today is the appointment's day.
Settled(id) == appointments[id].outcome # "unknown"

C38_NotSettledEarly ==
    /\ [](\A id \in DOMAIN appointments : Settled(id) => appointments[id].dayIndex <= todayIndex)
    /\ [][\A id \in DOMAIN appointments :
              (~Settled(id) /\ appointments'[id].outcome # "unknown")
                  => appointments[id].dayIndex = todayIndex]_vars

\* a1 settled by a tick, on its own day
C38_Witness ==
    /\ Settled("a1")
    /\ Appt("a1").dayIndex = todayIndex
    /\ intraday.last_processed_id = "a1"

\* ---------------------------------------------------------------------------
\* C39: the window check rejects every deployment whose target day is in the
\* past, so every accepted deployment targets today or a later day and no
\* step changes the variant or the applied strategies of an appointment whose
\* day has already ended.
DayEnded(id) == appointments[id].dayIndex < todayIndex

C39_NoDeploymentIntoThePast ==
    /\ [](\A target \in Days : \A ids \in DeployLists \cup RepeatedLists :
             target < todayIndex => window_exceeded(State, target, ids))
    /\ [][/\ Len(deployments') > Len(deployments)
               => deployments'[Len(deployments')].target_day >= todayIndex
           /\ \A id \in DOMAIN appointments :
                 DayEnded(id) =>
                     /\ appointments'[id].strategy_variant = Appt(id).strategy_variant
                     /\ appointments'[id].strategy_applied_ids = Appt(id).strategy_applied_ids]_vars

\* the seed day is over and a deployment for it, of a strategy whose window
\* is zero, has just been turned down; a1 still has no strategy applied
C39_Witness ==
    /\ resp.op = "deploy"
    /\ resp.status = 400
    /\ todayIndex > SEED_DAY
    /\ "s3" \in DOMAIN strategies
    /\ strategy_window(strategies["s3"]) = 0
    /\ Appt("a1").strategy_applied_ids = <<>>

\* ---------------------------------------------------------------------------
\* C40: for an appointment seeded with a static risk within the clamp range,
\* the live risk never exceeds the smaller of the upper clamp and the static
\* risk plus the silence lift: no step raises a live risk except the day's
\* one adjustment of that appointment, and that raises it by the lift at most.
LiftCeiling(base) ==
    IF base + SILENCE_LIFT > CLAMP_HI THEN CLAMP_HI ELSE base + SILENCE_LIFT

SeededInRange(id) ==
    /\ appointments[id].static_risk >= CLAMP_LO
    /\ appointments[id].static_risk <= CLAMP_HI

C40_LiveRiskCeiling ==
    /\ [](\A id \in DOMAIN appointments :
             SeededInRange(id) =>
                 appointments[id].live_adjusted_risk <= LiftCeiling(appointments[id].static_risk))
    /\ [][\A id \in DOMAIN appointments :
              (SeededInRange(id)
                 /\ appointments'[id].live_adjusted_risk > appointments[id].live_adjusted_risk)
                => /\ ~appointments[id].live_adjustment_applied
                   /\ appointments'[id].live_adjustment_applied
                   /\ appointments'[id].live_adjusted_risk
                          <= LiftCeiling(appointments[id].live_adjusted_risk)]_vars

\* a4, seeded at the upper clamp, has had its adjustment: the lift was due
\* and the clamp kept the risk at the ceiling
C40_Witness ==
    /\ "a4" \in DOMAIN appointments
    /\ Appt("a4").live_adjustment_applied
    /\ Appt("a4").static_risk = CLAMP_HI
    /\ Appt("a4").live_adjusted_risk = CLAMP_HI

====
